---- MODULE Spec2Model ----
(***************************************************************************)
(* Elliptics node I/O core (library/pool.c): the network reactor, the      *)
(* per-connection receive and send state machines, the dispatcher, the     *)
(* work pools, the admission check and the node shutdown sequence.         *)
(*                                                                         *)
(* The module holds several specifications over one set of variables; each *)
(* specification exercises one part of pool.c and leaves the variables of  *)
(* the other parts unchanged:                                              *)
(*   SpecRecv    dnet_process_recv_single / dnet_schedule_io               *)
(*   SpecSend    producers / dnet_process_send_single                      *)
(*   SpecTrans   the transaction registry of a connection                  *)
(*   SpecCheckIo dnet_check_io over pool configurations                    *)
(*   SpecAdm     reactors under admission control, workers dequeuing       *)
(*   SpecAdmFair SpecAdm with fair scheduling of the threads               *)
(*   SpecStop    dnet_io_stop and dnet_io_cleanup on a node under load     *)
(*   SpecStopFair SpecStop with fair scheduling of the threads             *)
(*   SpecAccept  dnet_state_accept_process and the acceptor's reactor      *)
(*   SpecRecvFair SpecRecv with fair scheduling of the reactor             *)
(*   SpecEpoll   SpecAdmFair with failing epoll_wait and pop timeouts      *)
(*   SpecEvent   dnet_state_net_process behind the reactor's event gate    *)
(*   SpecDispatch dnet_schedule_io called by two threads, the place locks  *)
(*   SpecSendFair SpecSend with fair scheduling of the reactor             *)
(*   SpecReset   the reactor resetting a connection whose handler failed   *)
(*   SpecPool    one work pool: dnet_io_process, stop, allocation          *)
(*   SpecPoolFair SpecPool with fair scheduling of the threads             *)
(*   SpecGrow    SpecPool with dnet_work_pool_grow on a pool with workers  *)
(*   SpecAlloc   SpecPool with failing allocation and pool cleanup         *)
(*   SpecAllocFair SpecAlloc with fair scheduling of the threads           *)
(*   SpecInit    dnet_io_init and its unwinding after a failed step        *)
(*   SpecLocks   the threads that take place, pool and admission locks     *)
(*   SpecBatch   one reactor handling batches of readiness events          *)
(*   SpecSched   dnet_schedule_send / dnet_schedule_recv against a reset   *)
(***************************************************************************)
EXTENDS Integers, Sequences, FiniteSets, TLC

\* ------------------------------------------------------------------------
\* Identities and bounds
\* ------------------------------------------------------------------------

\* Connections (struct dnet_net_state) and reactor threads (struct dnet_net_io).
Conns == {"c1"}
Reactors == {"net1"}

\* Frames a peer sends on one connection, and the largest payload, in cells.
MaxFrames == 2
MaxPayload == 1

\* sizeof(struct dnet_io_req), in cells: the request object precedes the
\* header copy and the payload in the buffer malloc'ed at pool.c:503.
IoReqSize == 1

NULL == "NULL"

Min(a, b) == IF a < b THEN a ELSE b

Range(s) == {s[i] : i \in DOMAIN s}

\* errno values the handlers return (negated in the code).
EAGAIN == "EAGAIN"
EINTR == "EINTR"
ECONNRESET == "ECONNRESET"
ENOMEM == "ENOMEM"
EINVAL == "EINVAL"
ENOTSUP == "ENOTSUP"

EUCLEAN == "EUCLEAN"
ECONNABORTED == "ECONNABORTED"
EMFILE == "EMFILE"
ENOBUFS == "ENOBUFS"
EBADF == "EBADF"
\* Linux, the only platform with epoll, gives both names one value.
EWOULDBLOCK == EAGAIN
EIO == "EIO"

\* ------------------------------------------------------------------------
\* Frame codec: struct dnet_cmd on the wire
\* ------------------------------------------------------------------------

\* Command flags (DNET_FLAGS_*), a header's flags being a set of them.
DNET_FLAGS_REPLY == "REPLY"
DNET_FLAGS_MORE == "MORE"
DNET_FLAGS_DESTROY == "DESTROY"
DNET_FLAGS_NOLOCK == "NOLOCK"
DNET_FLAGS_DIRECT_BACKEND == "DIRECT_BACKEND"

\* Opcodes the model uses: the first group is the backend-less set of
\* dnet_cmd_needs_backend, the second needs a backend.
BackendlessCmds ==
    {"AUTH", "STATUS", "REVERSE_LOOKUP", "JOIN", "ROUTE_LIST", "MONITOR_STAT",
     "BACKEND_CONTROL", "BACKEND_STATUS", "BULK_READ_NEW", "BULK_REMOVE_NEW"}

BackendCmds == {"READ", "WRITE", "LOOKUP"}

\* struct dnet_cmd in wire order, cut into the cells the model transfers: the
\* routing fields (key id, opcode, flags, backend id), the transaction id and
\* the payload size.
HdrFields == <<"route", "trans", "size">>

\* sizeof(struct dnet_cmd), in cells.
HdrSize == Len(HdrFields)

RouteOf(cmd) == [id |-> cmd.id, cmd |-> cmd.cmd, flags |-> cmd.flags, backend_id |-> cmd.backend_id]

NoRoute == [id |-> "k0", cmd |-> "READ", flags |-> {}, backend_id |-> 0]

\* A cell of the byte stream: a header field in little-endian wire order
\* ("le"), the same field in host order ("host"), a payload cell ("data"),
\* zeroed memory ("zero") or fresh malloc'ed memory ("junk").
Le(v) == [enc |-> "le", v |-> v]

Host(v) == [enc |-> "host", v |-> v]

ZeroCell == [enc |-> "zero", v |-> 0]

JunkCell == [enc |-> "junk", v |-> 0]

PayloadCell(trans, k) == [enc |-> "data", v |-> <<trans, k>>]

\* dnet_convert_cmd: every multi-byte field from wire order to host order.
\* A cell that is not in wire order converts to garbage.
dnet_convert_cell(cell) == IF cell.enc = "le" THEN Host(cell.v) ELSE JunkCell

dnet_convert_cmd(cells) == [i \in 1..HdrSize |-> dnet_convert_cell(cells[i])]

\* The header as the peer serialises it, and the header a host-order buffer
\* holds.
SerializeCmd(cmd) == <<Le(RouteOf(cmd)), Le(cmd.trans), Le(cmd.size)>>

FieldOf(cells, i, dflt) == IF cells[i].enc = "host" THEN cells[i].v ELSE dflt

CmdOf(cells) ==
    LET route == FieldOf(cells, 1, NoRoute)
    IN  [id |-> route.id, cmd |-> route.cmd, flags |-> route.flags,
         trans |-> FieldOf(cells, 2, 0), size |-> FieldOf(cells, 3, 0),
         backend_id |-> route.backend_id]

Payload(cmd) == [k \in 1..cmd.size |-> PayloadCell(cmd.trans, k)]

SerializeFrame(cmd) == SerializeCmd(cmd) \o Payload(cmd)

RECURSIVE WireBytes(_)
WireBytes(frames) ==
    IF frames = <<>> THEN <<>>
    ELSE SerializeFrame(Head(frames)) \o WireBytes(Tail(frames))

MkCmd(kind, trans, size) ==
    [id |-> kind.id, cmd |-> kind.cmd, flags |-> kind.flags, trans |-> trans,
     size |-> size, backend_id |-> kind.backend_id]

\* The requests a peer sends in the receive specification: AUTH requests
\* (no backend) or non-blocking WRITEs addressed by key.
RecvKinds ==
    {[id |-> "k0", cmd |-> "AUTH", flags |-> {}, backend_id |-> 0],
     [id |-> "k1", cmd |-> "WRITE", flags |-> {DNET_FLAGS_NOLOCK}, backend_id |-> 0]}

\* The streams a peer may send on a connection: MaxFrames frames of one
\* kind, frame i carrying transaction id i.
Streams(c) ==
    UNION {[1..MaxFrames -> {MkCmd(k, t, sz) : t \in 1..MaxFrames, sz \in 0..MaxPayload}]
           : k \in RecvKinds}

WellNumbered(f) == \A i \in DOMAIN f : f[i].trans = i

\* ------------------------------------------------------------------------
\* State
\* ------------------------------------------------------------------------

VARIABLES
    peer,       \* per connection: the frames the peer sends and the socket
    st,         \* per connection: struct dnet_net_state (receive side)
    net,        \* per reactor thread: its position in dnet_io_process_network
    pools,      \* per place: the request queue of its work pool
    sched_log,  \* per connection: the requests handed to dnet_schedule_io
    snd,        \* the send side of one connection's struct dnet_net_state
    wsock,      \* the cells written to that connection's socket, in order
    prod,       \* per producer thread: its position in queueing a frame
    nsend,      \* the reactor thread inside dnet_process_send_single
    trans,      \* the transaction registry of a connection
    cb_log,     \* per transaction: the flags of each completion callback call
    places,     \* the pool places: the pool each holds, its queue size and threads
    nio,        \* the reactor threads of dnet_io_process_network
    asock,      \* per connection: frames waiting to be read, EPOLLOUT registered
    blocked,    \* n->io->blocked
    node,       \* the node: need_exit
    chk,        \* the last result of dnet_check_io on a drawn pool configuration
    wio,        \* per place: the worker threads of its pool
    halt,       \* the thread in dnet_io_stop and dnet_io_cleanup, the acceptor
    lst,        \* the listening connection and the last dnet_state_accept_process
    pending,    \* clients waiting in the listen queue of accept_s
    evt,        \* a connection and the reactor's handling of its last event
    sio,        \* the threads inside dnet_schedule_io and the place locks
    rst,        \* a connection, the reactor handling its events, the reconnect set
    wp,         \* one place: its work pool, the worker threads, the requests
    ioi,        \* dnet_io_init: what is constructed, what is torn down, the threads
    lk,         \* the mutexes of the admission path: owner, and each thread's program
    bat         \* one reactor's batch of readiness events over two connections

recvVars == <<peer, st, net, pools, sched_log>>

sendVars == <<snd, wsock, prod, nsend>>

transVars == <<trans, cb_log>>

admVars == <<places, nio, asock, blocked, node, chk, wio, halt>>

accVars == <<lst, pending, evt, sio, rst, wp, ioi, lk, bat>>

vars ==
    <<peer, st, net, pools, sched_log, snd, wsock, prod, nsend, trans, cb_log,
      places, nio, asock, blocked, node, chk, wio, halt, lst, pending, evt,
      sio, rst, wp, ioi, lk, bat>>

\* The places of the dispatch table: the two global ones and those of one
\* backend.
Places == {<<-1, 0>>, <<-1, 1>>, <<1, 0>>, <<1, 1>>}

\* Route table: the backend that serves a key (dnet_state_search_backend).
dnet_state_search_backend(id) == IF id = "k1" THEN 1 ELSE -1

\* The reactor thread a connection is registered with (st->epoll_fd).
NetOf(c) == "net1"

\* ------------------------------------------------------------------------
\* Socket
\* ------------------------------------------------------------------------

Wire(c) == WireBytes(peer[c].frames)

\* Cells the kernel holds for the connection and recv has not taken yet.
Avail(c) == peer[c].sent - peer[c].rd

\* Offset in the stream at which frame i ends.
FrameEnd(frames, i) == Len(WireBytes(SubSeq(frames, 1, i)))

\* ------------------------------------------------------------------------
\* Receive state machine
\* ------------------------------------------------------------------------

DNET_IO_CMD == "DNET_IO_CMD"

\* No request: a NULL struct dnet_io_req pointer.
NullReq == [header |-> <<>>, hsize |-> 0, data |-> <<>>, dsize |-> 0, st |-> NULL]

\* recv was not called.
NoRecv == [n |-> 0, errno |-> "none"]

\* A reactor thread outside the handlers. out and ret keep what the last
\* recv and the last call of the receive handler returned, start the number
\* of requests the connection had dispatched when that call began.
InitNet == [pc |-> "wait", st |-> NULL, out |-> NoRecv, ret |-> "none", start |-> 0]

\* dnet_schedule_command: back to expecting a header; a buffer still owned by
\* the connection is freed. freed lists the buffers the connection has
\* freed, cur is the buffer st->rcv_data points to (0 for none).
dnet_schedule_command(s) ==
    [s EXCEPT !.rcv_flags = {DNET_IO_CMD},
              !.freed = IF s.rcv_data # NullReq THEN Append(@, s.cur) ELSE @,
              !.cur = 0,
              !.rcv_data = NullReq,
              !.rcv_end = HdrSize,
              !.rcv_offset = 0]

\* A receive routine that takes the request and leaves st->rcv_data pointing
\* to it.
Detach_Keep(s) == [s EXCEPT !.handed = Append(@, s.cur)]

\* pool.c:536-537: r = st->rcv_data; st->rcv_data = NULL. handed lists the
\* buffers given to dnet_schedule_io.
Detach(s) == [s EXCEPT !.rcv_data = NullReq, !.handed = Append(@, s.cur), !.cur = 0]

\* memcpy of received cells into a buffer at an offset.
CopyIn(buf, off, cells) ==
    [i \in DOMAIN buf |->
        IF i > off /\ i <= off + Len(cells) THEN cells[i - off] ELSE buf[i]]

\* Offset of the payload in the buffer of a request (pool.c:515).
DataOffset == IoReqSize + HdrSize

\* The request malloc'ed once a header is complete (pool.c:503-520): the
\* header copy is filled in, the payload is not yet.
NewIoReq(hdr) ==
    [header |-> hdr, hsize |-> HdrSize,
     data |-> [k \in 1..CmdOf(hdr).size |-> JunkCell],
     dsize |-> CmdOf(hdr).size, st |-> NULL]

\* What one recv(2) on the connection's socket can return: n cells (0 at
\* end of stream) with errno OK, or -1 with an errno.
RecvOutcomes(c, size) ==
    {[n |-> -1, errno |-> EINTR]} \cup
    (IF peer[c].state = "err" THEN {[n |-> -1, errno |-> EIO]}
     ELSE IF Avail(c) > 0 THEN {[n |-> k, errno |-> "OK"] : k \in 1..Min(Avail(c), size)}
     ELSE IF peer[c].state = "eof" THEN {[n |-> 0, errno |-> "OK"]}
     ELSE {[n |-> -1, errno |-> EAGAIN]})

\* The part of dnet_process_recv_single after a successful recv (or with
\* nothing left to read), pool.c:474-545.  ret is "again" when the code jumps
\* back to the label again, that is, goes on to the next recv.
RecvMallocFail(s) ==
    [st |-> dnet_schedule_command(s), ret |-> ENOMEM, req |-> NullReq]

\* A receive routine that dispatches as soon as the header is complete, without
\* waiting for the payload.
RecvHeaderDone_NoBody(s, malloc_ok) ==
    LET hdr == dnet_convert_cmd(s.rcv_cmd)
        s1 == [s EXCEPT !.rcv_cmd = hdr, !.rcv_flags = s.rcv_flags \ {DNET_IO_CMD}]
    IN  [st |-> dnet_schedule_command(s1), ret |-> "OK", req |-> NewIoReq(hdr)]

RecvHeaderDone(s, malloc_ok) ==
    LET hdr == dnet_convert_cmd(s.rcv_cmd)
        c == CmdOf(hdr)
        s1 == [s EXCEPT !.rcv_cmd = hdr, !.rcv_flags = s.rcv_flags \ {DNET_IO_CMD}]
        s2 == [s1 EXCEPT !.rcv_data = NewIoReq(hdr),
                         !.nbuf = @ + 1,
                         !.cur = s.nbuf + 1,
                         !.rcv_offset = DataOffset,
                         !.rcv_end = DataOffset + c.size]
    IN  IF ~malloc_ok THEN RecvMallocFail(s1)
        ELSE IF c.size > 0 THEN [st |-> s2, ret |-> "again", req |-> NullReq]
        ELSE [st |-> dnet_schedule_command(Detach(s2)),
              ret |-> "OK", req |-> s2.rcv_data]

\* A receive routine that dispatches the complete frame and stays where it is.
RecvBodyDone_NoReset(s) ==
    [st |-> [s EXCEPT !.rcv_data = NullReq], ret |-> "OK", req |-> s.rcv_data]

RecvBodyDone(s) ==
    [st |-> dnet_schedule_command(Detach(s)),
     ret |-> "OK", req |-> s.rcv_data]

RecvAfter(s, malloc_ok) ==
    IF s.rcv_offset # s.rcv_end THEN [st |-> s, ret |-> "again", req |-> NullReq]
    ELSE IF DNET_IO_CMD \in s.rcv_flags THEN RecvHeaderDone(s, malloc_ok)
    ELSE RecvBodyDone(s)

\* The cells a recv of n cells stores, at rcv_offset of the current buffer:
\* the header buffer rcv_cmd while DNET_IO_CMD is set, the request's payload
\* otherwise.
RecvStore(s, cells) ==
    IF DNET_IO_CMD \in s.rcv_flags
    THEN [s EXCEPT !.rcv_cmd = CopyIn(s.rcv_cmd, s.rcv_offset, cells),
                   !.rcv_offset = s.rcv_offset + Len(cells)]
    ELSE [s EXCEPT !.rcv_data.data = CopyIn(s.rcv_data.data, s.rcv_offset - DataOffset, cells),
                   !.rcv_offset = s.rcv_offset + Len(cells)]

\* A receive routine that reports success when recv had nothing.
RecvRetry_Zero(s) == [st |-> s, ret |-> "OK", req |-> NullReq]

\* A receive routine that starts the frame over after EAGAIN.
RecvRetry_Restart(s) == [st |-> dnet_schedule_command(s), ret |-> EAGAIN, req |-> NullReq]

\* recv failed with EAGAIN or EINTR (pool.c:445-454, 547-552): the routine
\* returns -EAGAIN and leaves the receive state alone.
RecvRetry(s) == [st |-> s, ret |-> EAGAIN, req |-> NullReq]

\* A receive routine that keeps the partial frame after an error.
RecvFail_Keep(s, err) == [st |-> s, ret |-> err, req |-> NullReq]

\* recv failed with another errno, or returned 0 (pool.c:445-462, 547-552):
\* dnet_schedule_command releases the partial buffer and the routine returns
\* the error.
RecvFail(s, err) == [st |-> dnet_schedule_command(s), ret |-> err, req |-> NullReq]

\* One pass of dnet_process_recv_single from the label again (pool.c:432):
\* at most one recv.  out is what recv returned, cells what it stored.
dnet_process_recv_pass(s, out, cells, malloc_ok) ==
    IF s.rcv_end - s.rcv_offset = 0 THEN RecvAfter(s, malloc_ok)
    ELSE IF out.n < 0 /\ out.errno \in {EAGAIN, EINTR} THEN RecvRetry(s)
    ELSE IF out.n < 0 THEN RecvFail(s, out.errno)
    ELSE IF out.n = 0 THEN RecvFail(s, ECONNRESET)
    ELSE RecvAfter(RecvStore(s, cells), malloc_ok)

\* ------------------------------------------------------------------------
\* Dispatcher
\* ------------------------------------------------------------------------

\* dnet_cmd_needs_backend (pool.c:241): 0 for the backend-less opcodes.
dnet_cmd_needs_backend(command) == IF command \in BackendlessCmds THEN 0 ELSE 1

\* dnet_backend_get_place: the pool slot of (backend, class); a backend id
\* that names no backend gives the global slot.
dnet_backend_get_place(backend_id, nonblocking) ==
    IF <<backend_id, nonblocking>> \in Places THEN <<backend_id, nonblocking>>
    ELSE <<-1, nonblocking>>

\* A resolution that looks at the opcode before DIRECT_BACKEND.
ResolveBackend_OpcodeFirst(cmd) ==
    IF dnet_cmd_needs_backend(cmd.cmd) = 0 THEN -1
    ELSE IF DNET_FLAGS_DIRECT_BACKEND \in cmd.flags THEN cmd.backend_id
    ELSE dnet_state_search_backend(cmd.id)

\* The backend id dnet_schedule_io resolves for a header (pool.c:334, 364-368).
ResolveBackend(cmd) ==
    IF DNET_FLAGS_DIRECT_BACKEND \in cmd.flags THEN cmd.backend_id
    ELSE IF dnet_cmd_needs_backend(cmd.cmd) = 1 THEN dnet_state_search_backend(cmd.id)
    ELSE -1

\* A stamp that writes the resolved id as it is.
StampBackend_Raw(cmd, backend_id) ==
    IF DNET_FLAGS_REPLY \in cmd.flags THEN cmd
    ELSE [cmd EXCEPT !.backend_id = backend_id]

\* dnet_io_req_set_request_backend_id applied by dnet_schedule_io to a frame
\* that is not a reply (pool.c:377-378).
StampBackend(cmd, backend_id) ==
    IF DNET_FLAGS_REPLY \in cmd.flags THEN cmd
    ELSE [cmd EXCEPT !.backend_id = IF backend_id >= 0 THEN backend_id ELSE -1]

\* A removal that leaves the transaction in the timer index.
dnet_trans_remove_timer_nolock_Keep(timer, t) == timer

\* dnet_trans_remove_timer_nolock: the transaction leaves the timer index.
dnet_trans_remove_timer_nolock(timer, t) == SelectSeq(timer, LAMBDA x : x # t)

\* dnet_trans_update_timestamp: the transaction's deadline is moved forward;
\* refreshed holds the transactions whose deadline a reply has moved.
dnet_trans_update_timestamp(refreshed, t) == refreshed \cup {t}

\* A demultiplexer that registers the transaction of a reply it cannot match.
dnet_update_trans_timestamp_network_Adopt(tr, cmd) ==
    IF DNET_FLAGS_REPLY \notin cmd.flags THEN tr
    ELSE [tr EXCEPT !.ids = @ \cup {cmd.trans},
                    !.refreshed = @ \cup {cmd.trans},
                    !.timer = SelectSeq(@, LAMBDA x : x # cmd.trans)]

\* dnet_update_trans_timestamp_network (pool.c:302): under the transaction
\* lock, a reply whose transaction is registered refreshes its timestamp and
\* takes it out of the timer index; it stays in the id index.
dnet_update_trans_timestamp_network(tr, cmd) ==
    IF DNET_FLAGS_REPLY \in cmd.flags /\ cmd.trans \in tr.ids
    THEN [tr EXCEPT !.refreshed = dnet_trans_update_timestamp(@, cmd.trans),
                    !.timer = dnet_trans_remove_timer_nolock(@, cmd.trans)]
    ELSE tr

\* dnet_push_request: the request joins the pool's queue.
dnet_push_request(queue, r) == Append(queue, r)

\* dnet_schedule_io (pool.c:328): the request is stamped and pushed into the
\* pool of its place.
dnet_schedule_io(pl, r) ==
    LET cmd == CmdOf(r.header)
        nonblocking == IF DNET_FLAGS_NOLOCK \in cmd.flags THEN 1 ELSE 0
        backend_id == ResolveBackend(cmd)
        place == dnet_backend_get_place(backend_id, nonblocking)
        stamped == [r EXCEPT !.header[1] = Host(RouteOf(StampBackend(cmd, backend_id)))]
    IN  [pl EXCEPT ![place] = dnet_push_request(pl[place], stamped)]

\* ------------------------------------------------------------------------
\* Send side of a connection: state
\* ------------------------------------------------------------------------

\* Threads that queue frames on the connection (workers sending replies,
\* client threads sending requests).
Producers == {"p1", "p2"}

\* Frames queued on the connection in one run, and the longest frame, in cells.
MaxSend == 3
MaxFrameLen == 2

\* Send-queue watermarks of a connection.
DNET_SEND_WATERMARK_LOW == 1
DNET_SEND_WATERMARK_HIGH == 2

\* The node's send_limit when the fairness cap is configured.
SendLimitCfg == 2

InitSnd ==
    [send_list |-> <<>>, send_offset |-> 0, send_queue_size |-> 0,
     armed |-> FALSE, need_exit |-> "OK", enq |-> <<>>]

\* start: the number of frames that had left the send list when the current
\* invocation of the send handler began; woke: the producers the invocation's
\* low-watermark broadcasts took out of pthread_cond_wait.
InitNsend(limit) ==
    [pc |-> "wait", r |-> 0, counter |-> 0, err |-> "OK", limit |-> limit, start |-> 0,
     woke |-> {}]

\* The send side at rest, in the specifications that do not exercise it.
IdleSend ==
    /\ snd = InitSnd
    /\ wsock = <<>>
    /\ prod = [p \in Producers |-> "idle"]
    /\ nsend = InitNsend(0)

\* ------------------------------------------------------------------------
\* Transaction registry of a connection: state
\* ------------------------------------------------------------------------

\* Transactions issued on the connection and reply frames the peer sends.
MaxTrans == 2
MaxReplies == 3

\* The registry: the next id, the id index (a set), the timer index (ids in
\* deadline order), and the number of reply frames received so far.
InitTrans ==
    [next |-> 1, ids |-> {}, timer |-> <<>>, refreshed |-> {}, replies |-> 0,
     need_exit |-> "OK"]

IdleTrans ==
    /\ trans = InitTrans
    /\ cb_log = [t \in 1..MaxTrans |-> <<>>]

\* ------------------------------------------------------------------------
\* Admission: state
\* ------------------------------------------------------------------------

\* Two reactor threads (net_thread_num = 2), one connection registered on each.
NetThreads == {"net1", "net2"}

AdmConns == {"a1", "a2"}

AdmNetOf(c) == IF c = "a1" THEN "net1" ELSE "net2"

\* The connections the node has replies to send on.
SendConns == {"a1"}

\* Frames a socket buffer holds before the peer's window closes.
MaxSock == 1

\* Requests the workers take off the queues in one run.
MaxPops == 2

\* cfg->io_thread_num and cfg->nonblocking_io_thread_num.
IoThreadNum == 1

NbThreadNum == 1

\* A place holds no pool (<<>>) or one pool: its queue size and its threads.
NoPool == <<>>

Pool(queue_size, num) == <<[queue_size |-> queue_size, num |-> num]>>

\* dnet_io_init: the two global pools are allocated, no backend is enabled.
InitPlace ==
    [p \in Places |->
        IF p = <<-1, 0>> THEN Pool(0, IoThreadNum)
        ELSE IF p = <<-1, 1>> THEN Pool(0, NbThreadNum)
        ELSE NoPool]

InitNio == [pc |-> "wait", evs |-> {}, tmp |-> 0, sends |-> 0, st |-> NULL, err |-> "OK"]

\* The node: need_exit, and the number of requests its workers have taken.
InitNode == [need_exit |-> "OK", popped |-> 0]

InitChk == [done |-> FALSE, queue_size |-> 0, threads_count |-> 0, ret |-> 0]

\* dnet_work_pool_grow: one thread per configured worker, each entering
\* dnet_io_process and waiting in dnet_pop_request.
InitWio(pls) ==
    [p \in Places |-> IF pls[p] = NoPool THEN <<>> ELSE [i \in 1..pls[p][1].num |-> "pop"]]

\* The node runs: nobody has called dnet_io_stop; the acceptor thread runs;
\* the connections are in the node's list of states.
InitHalt == [pc |-> 1, i |-> 1, acceptor |-> "run", states |-> AdmConns]

\* No call of dnet_state_accept_process yet.
NoAccept == [accept |-> "none", create |-> "none", local |-> "none", ret |-> "none"]

\* The listening connection: registered for EPOLLIN on accept_s, one
\* reference held by the node's list of states.
InitLst ==
    [need_exit |-> "OK", refcnt |-> 1, registered |-> TRUE, exited |-> FALSE,
     calls |-> 0, accepted |-> 0, failed |-> 0, last |-> NoAccept, client |-> "none"]

\* A connection as the reactor's loop body sees it: cells waiting in the read
\* socket, cells received so far, frames on the send list, reset state and
\* references.
InitEvtConn == [rd |-> 0, off |-> 0, out |-> 0, need_exit |-> "OK", refcnt |-> 1]

\* No event handled yet.
InitEvt ==
    [conn |-> InitEvtConn, before |-> InitEvtConn, mask |-> {}, check |-> "none",
     recv |-> FALSE, send |-> FALSE, err |-> "none", tmp |-> 0]

\* A thread outside dnet_schedule_io: the request it passes, the header as
\* passed, the request's io_req_type, the resolved backend id and the place.
SioIdle ==
    [pc |-> "idle", r |-> NullReq,
     cmd |-> [id |-> "k0", cmd |-> "READ", flags |-> {}, trans |-> 0, size |-> 0,
              backend_id |-> 0],
     type |-> "OLD_PROTOCOL",
     backend_id |-> -1, place |-> <<-1, 0>>]

\* No thread in dnet_schedule_io, every place lock free, no call made; refs
\* counts the references to the connection taken for requests (pool.c:541).
InitSio ==
    [thr |-> [t \in NetThreads |-> SioIdle],
     lock |-> [p \in Places |-> NULL],
     calls |-> 0, refs |-> 0]

\* The sockets of a connection that can be registered with epoll.
ConnSockets == {"read_s", "write_s"}

\* A connection registered for reading and writing, referenced by the node's
\* set of connections; the reactor outside the loop body, nothing recorded
\* for reconnect. done lists the steps the reactor has taken on the
\* connection after a failed handler.
\* send_lock is the holder of st->send_lock, call the calls of
\* dnet_schedule_send and dnet_schedule_recv in progress.
InitRst(join_state) ==
    [pc |-> "wait", err |-> "OK", events |-> 0, done |-> <<>>,
     st |-> [need_exit |-> "OK", registered |-> ConnSockets, refcnt |-> 1,
             join_state |-> join_state],
     held |-> 0,
     reconnect |-> {},
     send_lock |-> "none",
     call |-> [p \in {"send", "recv"} |-> [pc |-> "idle", ret |-> "OK", calls |-> 0, raced |-> FALSE]]]

\* Thread ids pthread_create can hand out, and the requests pushed to the
\* place's pool.
MaxWorkers == 3

MaxReqs == 2

Tids == 1..MaxWorkers

ReqIds == 1..MaxReqs

\* A request nobody has handled yet.
NoReq == [handled |-> 0, by |-> {}, released |-> 0, freed |-> 0, puts |-> 0, late |-> FALSE]

\* dnet_work_pool_place_init (pool.c:167-180): the place is zeroed, it holds
\* no pool. pool is place->pool: "none" for NULL, "alloc" for a pool that was
\* allocated, "freed" for a pointer to a pool that was freed; ret is what
\* dnet_work_pool_alloc returned. thr is the position of every thread in dnet_io_process and the
\* request it holds, joins the number of pthread_join calls per thread,
\* refcnt the reference count of the connection the requests belong to.
InitWp ==
    [pool |-> "none", need_exit |-> 0, pool_need_exit |-> 0,
     num |-> 0, wio_list |-> <<>>,
     thr |-> [t \in Tids |-> [pc |-> "none", r |-> 0]],
     joins |-> [t \in Tids |-> 0],
     queue |-> <<>>, pushed |-> 0, refcnt |-> 1,
     req |-> [q \in ReqIds |-> NoReq],
     place_lock |-> "free", pool_lock |-> "free",
     stop |-> [pc |-> "idle", i |-> 0, calls |-> 0],
     grow |-> [pc |-> "idle", n |-> 0, i |-> 0, j |-> 0, k |-> 0, old |-> {}, calls |-> 0,
               err |-> "OK"],
     ret |-> "none"]

\* The threads dnet_io_init starts: the workers of the two global pools,
\* the acceptor and the reactors.
IoiWorkers == [recv_pool |-> {"recv1", "recv2"}, nb_pool |-> {"nb1", "nb2"}]

\* The worker a pool starts first.
IoiFirst == [recv_pool |-> "recv1", nb_pool |-> "nb1"]

IoiThreads == IoiWorkers.recv_pool \cup IoiWorkers.nb_pool \cup {"acceptor"} \cup NetThreads

\* dnet_io_init has not run: n->io is NULL, nothing is constructed, no thread
\* runs. join is DNET_CFG_JOIN_NETWORK in the configuration; built lists the
\* components constructed, down those torn down, todo the operations left on
\* the error path.
InitIoi(join) ==
    [pc |-> "build", step |-> 1, join |-> join, io |-> "NULL", need_exit |-> 0,
     built |-> <<>>, down |-> <<>>, todo |-> <<>>, err |-> "OK", ret |-> "none",
     thr |-> [t \in IoiThreads |-> "none"]]

\* The mutexes of the admission path: full_lock, and place->lock and
\* pool->lock of the two global places; the threads that take them.
LkLocks == {"full_lock", "place_recv", "pool_recv", "place_nb", "pool_nb"}

LkThreads == NetThreads \cup {"ctl"}

\* Every mutex is free, every thread between two operations; parked is set
\* while a thread is inside pthread_cond_timedwait.
InitLk ==
    [own |-> [l \in LkLocks |-> "free"],
     thr |-> [t \in LkThreads |-> [prog |-> <<>>, parked |-> FALSE]]]

\* The connections one reactor serves and the kinds of readiness event.
BatConns == {"c1", "c2"}

BatKinds == {"in", "out"}

\* Both connections are registered for reading and writing and referenced by
\* the node's set only; no socket is ready, the reactor is in epoll_wait.
\* evs is the batch epoll_wait returned, i the event the loop is at, handled
\* the events a handler was called for, skipped those left when the loop
\* was left early.
InitBat ==
    [conn |-> [c \in BatConns |->
                  [need_exit |-> "OK", registered |-> BatKinds, ready |-> {},
                   refcnt |-> 1, released |-> FALSE]],
     pc |-> "wait", evs |-> <<>>, i |-> 1, batches |-> 0,
     handled |-> <<>>, skipped |-> {}, reset |-> FALSE]

IdleAcc ==
    /\ lst = InitLst
    /\ pending = 0
    /\ evt = InitEvt
    /\ sio = InitSio
    /\ rst = InitRst(0)
    /\ wp = InitWp
    /\ ioi = InitIoi(TRUE)
    /\ lk = InitLk
    /\ bat = InitBat

IdleAdm ==
    /\ IdleAcc
    /\ halt = InitHalt
    /\ places = InitPlace
    /\ wio = InitWio(InitPlace)
    /\ nio = [r \in NetThreads |-> InitNio]
    /\ asock = [c \in AdmConns |-> [rd |-> 0, out |-> FALSE]]
    /\ blocked = 0
    /\ node = InitNode
    /\ chk = InitChk

\* ------------------------------------------------------------------------
\* SpecRecv: peers, reactor threads in the receive handler, workers
\* ------------------------------------------------------------------------

InitState ==
    [rcv_flags |-> {DNET_IO_CMD}, rcv_offset |-> 0, rcv_end |-> HdrSize,
     rcv_cmd |-> [i \in 1..HdrSize |-> ZeroCell], rcv_data |-> NullReq,
     nbuf |-> 0, cur |-> 0, freed |-> <<>>, handed |-> <<>>,
     need_exit |-> "OK", refcnt |-> 1]

InitRecv ==
    /\ peer \in [Conns -> [frames : UNION {Streams(c) : c \in Conns},
                           sent : {0}, rd : {0}, state : {"open"}]]
    /\ \A c \in Conns : peer[c].frames \in Streams(c) /\ WellNumbered(peer[c].frames)
    /\ st = [c \in Conns |-> InitState]
    /\ net = [r \in Reactors |-> InitNet]
    /\ pools = [p \in Places |-> <<>>]
    /\ sched_log = [c \in Conns |-> <<>>]
    /\ IdleSend
    /\ IdleTrans
    /\ IdleAdm

\* The peer's kernel delivers more cells of the stream.
PeerSend(c) ==
    /\ peer[c].state = "open"
    /\ \E k \in 1..(Len(Wire(c)) - peer[c].sent) :
          peer' = [peer EXCEPT ![c].sent = @ + k]
    /\ UNCHANGED <<st, net, pools, sched_log, sendVars, transVars, admVars, accVars>>

\* The peer closes the connection (end of stream after the delivered cells)
\* or the socket fails.
PeerClose(c) ==
    /\ peer[c].state = "open"
    /\ \E how \in {"eof", "err"} : peer' = [peer EXCEPT ![c].state = how]
    /\ UNCHANGED <<st, net, pools, sched_log, sendVars, transVars, admVars, accVars>>

\* Level-triggered EPOLLIN readiness of the read socket.
Readable(c) == Avail(c) > 0 \/ peer[c].state # "open"

\* dnet_io_process_network takes an EPOLLIN event of a registered connection
\* and enters dnet_state_net_process -> dnet_process_recv_single.
NetRecvEvent(c) ==
    /\ net[NetOf(c)].pc = "wait"
    /\ st[c].need_exit = "OK"
    /\ Readable(c)
    /\ net' = [net EXCEPT ![NetOf(c)] = [InitNet EXCEPT !.pc = "recv", !.st = c,
                                                         !.start = Len(sched_log[c])]]
    /\ UNCHANGED <<peer, st, pools, sched_log, sendVars, transVars, admVars, accVars>>

\* What the reactor does with the handler's return value (pool.c:988-1016):
\* 0 and -EAGAIN leave the connection alone, any other error resets it and
\* drops one reference.
NetAfterHandler(s, ret) ==
    IF ret \in {"OK", EAGAIN} THEN s
    ELSE [s EXCEPT !.need_exit = ret, !.refcnt = @ - 1]

\* One pass of dnet_process_recv_single; a pass that completes a frame takes
\* a reference to the connection and calls dnet_schedule_io.
NetRecvPass(c) ==
    /\ net[NetOf(c)].pc = "recv"
    /\ net[NetOf(c)].st = c
    /\ \E out \in RecvOutcomes(c, st[c].rcv_end - st[c].rcv_offset), malloc_ok \in BOOLEAN :
          LET took == IF st[c].rcv_end - st[c].rcv_offset > 0 /\ out.n > 0 THEN out.n ELSE 0
              cells == SubSeq(Wire(c), peer[c].rd + 1, peer[c].rd + took)
              res == dnet_process_recv_pass(st[c], out, cells, malloc_ok)
              r == [res.req EXCEPT !.st = c]
              called == IF st[c].rcv_end - st[c].rcv_offset > 0 THEN out ELSE NoRecv
          IN  /\ peer' = [peer EXCEPT ![c].rd = @ + took]
              /\ UNCHANGED <<sendVars, cb_log, admVars, accVars>>
              /\ trans' = IF res.ret # "again" /\ res.req # NullReq
                          THEN dnet_update_trans_timestamp_network(trans, CmdOf(r.header))
                          ELSE trans
              /\ IF res.ret = "again"
                 THEN /\ st' = [st EXCEPT ![c] = res.st]
                      /\ net' = [net EXCEPT ![NetOf(c)].out = called]
                      /\ UNCHANGED <<pools, sched_log>>
                 ELSE /\ net' = [net EXCEPT ![NetOf(c)].pc = "wait", ![NetOf(c)].st = NULL,
                                            ![NetOf(c)].out = called, ![NetOf(c)].ret = res.ret]
                      /\ IF res.req # NullReq
                         THEN /\ st' = [st EXCEPT ![c] = [res.st EXCEPT !.refcnt = @ + 1]]
                              /\ pools' = dnet_schedule_io(pools, r)
                              /\ sched_log' = [sched_log EXCEPT ![c] = Append(@, r)]
                         ELSE /\ st' = [st EXCEPT ![c] = NetAfterHandler(res.st, res.ret)]
                              /\ UNCHANGED <<pools, sched_log>>

\* dnet_io_process: a worker of the place's pool pops a request, handles it,
\* frees it and drops the connection reference taken at dispatch.
WorkerProcess(p) ==
    /\ pools[p] # <<>>
    /\ pools' = [pools EXCEPT ![p] = Tail(@)]
    /\ st' = [st EXCEPT ![Head(pools[p]).st].refcnt = @ - 1]
    /\ UNCHANGED <<peer, net, sched_log, sendVars, transVars, admVars, accVars>>

NextRecv ==
    \/ \E c \in Conns : PeerSend(c)
    \/ \E c \in Conns : PeerClose(c)
    \/ \E c \in Conns : NetRecvEvent(c)
    \/ \E c \in Conns : NetRecvPass(c)
    \/ \E p \in Places : WorkerProcess(p)

SpecRecv == InitRecv /\ [][NextRecv]_vars

\* The reactor thread is scheduled again and epoll_wait reports a readable
\* connection; a recv that can make progress is not interrupted for ever.
FairRecv ==
    \A c \in Conns :
        /\ WF_vars(NetRecvEvent(c))
        /\ WF_vars(NetRecvPass(c))
        /\ SF_vars(NetRecvPass(c) /\ (peer'[c].rd # peer[c].rd
                                        \/ st'[c].need_exit # st[c].need_exit))

SpecRecvFair == InitRecv /\ [][NextRecv]_vars /\ FairRecv

\* ------------------------------------------------------------------------
\* Claims on the receive path
\* ------------------------------------------------------------------------

\* Frames of the stream whose last cell recv has taken.
FramesRead(c) ==
    Cardinality({i \in DOMAIN peer[c].frames : FrameEnd(peer[c].frames, i) <= peer[c].rd})

\* The request the dispatcher must see for a frame.
RequestOf(c, cmd) ==
    [header |-> dnet_convert_cmd(SerializeCmd(cmd)), hsize |-> HdrSize,
     data |-> Payload(cmd), dsize |-> cmd.size, st |-> c]

\* C1: on every connection the requests handed to dnet_schedule_io are the
\* frames of the stream in their order on the wire, whatever the split into
\* partial reads: the i-th request dispatched is the i-th frame completed, and
\* while the connection is not reset every frame completely received has been
\* dispatched before any cell of a later frame is read.
C1_DispatchInReceiveOrder ==
    \A c \in Conns :
        /\ Len(sched_log[c]) <= FramesRead(c)
        /\ \A i \in 1..Len(sched_log[c]) : sched_log[c][i] = RequestOf(c, peer[c].frames[i])
        /\ st[c].need_exit = "OK" => Len(sched_log[c]) = FramesRead(c)

\* Two frames were dispatched, the later one with a payload, and the payload
\* arrived in a read of its own.
C1_Witness ==
    \E c \in Conns :
        /\ Len(sched_log[c]) = MaxFrames
        /\ sched_log[c][MaxFrames].dsize > 0
        /\ sched_log[c][1].dsize > 0

\* The receive state of a connection: expecting a header from offset 0, or
\* expecting n more payload cells.
ExpectHeader(s) == DNET_IO_CMD \in s.rcv_flags /\ s.rcv_end = HdrSize
ExpectBody(s, n) == DNET_IO_CMD \notin s.rcv_flags /\ s.rcv_end - s.rcv_offset = n

\* The frame of the stream the connection is receiving, and what a step did
\* to it: its header became complete, its payload became complete, a request
\* was dispatched.
CurFrame(c) == peer[c].frames[FramesRead(c) + 1]
CurStart(c) == FrameEnd(peer[c].frames, FramesRead(c))
HeaderCompleted(c) ==
    /\ FramesRead(c) < Len(peer[c].frames)
    /\ peer[c].rd < CurStart(c) + HdrSize
    /\ peer'[c].rd = CurStart(c) + HdrSize
BodyCompleted(c) ==
    /\ FramesRead(c) < Len(peer[c].frames)
    /\ CurFrame(c).size > 0
    /\ peer[c].rd < peer'[c].rd
    /\ peer'[c].rd = CurStart(c) + HdrSize + CurFrame(c).size
Dispatched(c) == Len(sched_log'[c]) = Len(sched_log[c]) + 1
LastDispatched(c) == sched_log'[c][Len(sched_log'[c])]
BackToHeader(c) == ExpectHeader(st'[c]) /\ st'[c].rcv_offset = 0 /\ st'[c].rcv_data = NullReq

\* C14 as stated: once a full header has been accumulated a frame without
\* payload is dispatched at once and the state is ExpectHeader again,
\* otherwise the state becomes ExpectBody for exactly the payload size; once
\* the payload has been accumulated the frame is dispatched and the state is
\* ExpectHeader again; a dispatched frame has exactly the payload its header
\* announces.
C14_RecvTransitions ==
    [][\A c \in Conns :
          /\ HeaderCompleted(c) =>
                IF CurFrame(c).size = 0
                THEN Dispatched(c) /\ BackToHeader(c)
                ELSE ~Dispatched(c) /\ ExpectBody(st'[c], CurFrame(c).size)
          /\ BodyCompleted(c) => Dispatched(c) /\ BackToHeader(c)
          /\ Dispatched(c) =>
                /\ HeaderCompleted(c) \/ BodyCompleted(c)
                /\ LastDispatched(c).dsize = CurFrame(c).size
                /\ Len(LastDispatched(c).data) = CurFrame(c).size]_vars

\* The request buffer could not be allocated for the header just completed:
\* nothing is dispatched and the routine returns -ENOMEM, which makes the
\* reactor reset the connection.
AllocFailed(c) == ~Dispatched(c) /\ BackToHeader(c) /\ st'[c].need_exit = ENOMEM

\* C14 amended: the same transitions, except that a complete header whose
\* request buffer cannot be allocated dispatches nothing, with or without
\* payload: the state is put back to ExpectHeader and the connection is reset
\* with -ENOMEM.
C14_RecvTransitionsUnlessNoMemory ==
    [][\A c \in Conns :
          /\ HeaderCompleted(c) =>
                \/ AllocFailed(c)
                \/ IF CurFrame(c).size = 0
                   THEN Dispatched(c) /\ BackToHeader(c)
                   ELSE ~Dispatched(c) /\ ExpectBody(st'[c], CurFrame(c).size)
          /\ BodyCompleted(c) => Dispatched(c) /\ BackToHeader(c)
          /\ Dispatched(c) =>
                /\ HeaderCompleted(c) \/ BodyCompleted(c)
                /\ LastDispatched(c).dsize = CurFrame(c).size
                /\ Len(LastDispatched(c).data) = CurFrame(c).size]_vars

\* A frame without payload was dispatched, and the header of the next frame
\* has put the connection into ExpectBody.
C14_Witness ==
    \E c \in Conns :
        /\ Len(sched_log[c]) = 1
        /\ sched_log[c][1].dsize = 0
        /\ ExpectBody(st[c], MaxPayload)
        /\ st[c].need_exit = "OK"

\* A step of the receive handler on the connection, and the step with which
\* the handler returns to the reactor.
InHandler(c) == net[NetOf(c)].pc = "recv" /\ net[NetOf(c)].st = c
Returned(c) == InHandler(c) /\ net'[NetOf(c)].pc = "wait"
LastRecv(c) == net'[NetOf(c)].out
LastRet(c) == net'[NetOf(c)].ret

\* The cells of the frame being received are in the connection's buffers up
\* to the read position of the socket: the header cells in rcv_cmd while a
\* header is expected, the payload cells in the request after that.
ResumesAtOffset(c) ==
    LET s == st[c]
        got == peer[c].rd - CurStart(c)
    IN  IF DNET_IO_CMD \in s.rcv_flags
        THEN /\ s.rcv_offset = got
             /\ \A i \in 1..got : s.rcv_cmd[i] = Wire(c)[CurStart(c) + i]
        ELSE /\ s.rcv_offset - DataOffset = got - HdrSize
             /\ s.rcv_data.header = dnet_convert_cmd(SerializeCmd(CurFrame(c)))
             /\ \A i \in 1..(got - HdrSize) :
                   s.rcv_data.data[i] = Wire(c)[CurStart(c) + HdrSize + i]

\* C15: when recv fails with EAGAIN or EINTR, in either receive state, the
\* handler returns -EAGAIN without touching the receive state or the socket
\* position; and whenever the connection is not reset its buffers hold
\* exactly the cells read so far of the current frame, so the next event
\* resumes the frame at that offset.
C15_EagainKeepsState ==
    /\ [][\A c \in Conns :
             (InHandler(c) /\ LastRecv(c).n < 0 /\ LastRecv(c).errno \in {EAGAIN, EINTR}) =>
                /\ Returned(c)
                /\ LastRet(c) = EAGAIN
                /\ st'[c] = st[c]
                /\ peer'[c].rd = peer[c].rd
                /\ ~Dispatched(c)]_vars
    /\ [](\A c \in Conns : st[c].need_exit = "OK" => ResumesAtOffset(c))

\* recv returned EAGAIN while the payload of the second frame was expected.
C15_Witness ==
    \E c \in Conns :
        /\ net[NetOf(c)].pc = "wait"
        /\ net[NetOf(c)].out = [n |-> -1, errno |-> EAGAIN]
        /\ net[NetOf(c)].ret = EAGAIN
        /\ Len(sched_log[c]) = 1
        /\ ExpectBody(st[c], MaxPayload)

\* recv returned 0, or failed with an errno other than EAGAIN and EINTR.
RecvBroken(out) == (out.n = 0 /\ out.errno = "OK") \/ (out.n < 0 /\ out.errno \notin {EAGAIN, EINTR})

\* C16: when recv returns 0 or fails with an errno other than EAGAIN and
\* EINTR, in either receive state, the handler returns that error
\* (-ECONNRESET for end of stream), dispatches nothing, puts the receive state
\* back to ExpectHeader with the partial buffer released, and the reactor
\* resets the connection and drops a reference.
C16_RecvErrorResets ==
    [][\A c \in Conns :
          (InHandler(c) /\ RecvBroken(LastRecv(c))) =>
             /\ Returned(c)
             /\ LastRet(c) = (IF LastRecv(c).n = 0 THEN ECONNRESET ELSE LastRecv(c).errno)
             /\ LastRet(c) \notin {"OK", EAGAIN}
             /\ ~Dispatched(c)
             /\ BackToHeader(c)
             /\ st'[c].need_exit = LastRet(c)
             /\ st'[c].refcnt = st[c].refcnt - 1]_vars

\* The peer closed the connection in the middle of a frame: the handler
\* returned -ECONNRESET and the connection is reset.
C16_Witness ==
    \E c \in Conns :
        /\ net[NetOf(c)].out = [n |-> 0, errno |-> "OK"]
        /\ net[NetOf(c)].ret = ECONNRESET
        /\ st[c].need_exit = ECONNRESET
        /\ peer[c].rd > CurStart(c)
        /\ Len(sched_log[c]) = 1

\* Frames of the stream whose last cell the kernel holds or recv has taken.
FramesDelivered(c) ==
    Cardinality({i \in DOMAIN peer[c].frames : FrameEnd(peer[c].frames, i) <= peer[c].sent})

\* Requests dispatched by the invocation of the handler that is returning.
DispatchedThisCall(c) == Len(sched_log'[c]) - net[NetOf(c)].start

InitSend ==
    /\ peer = [c \in Conns |-> [frames |-> <<>>, sent |-> 0, rd |-> 0, state |-> "open"]]
    /\ st = [c \in Conns |-> InitState]
    /\ net = [r \in Reactors |-> InitNet]
    /\ pools = [p \in Places |-> <<>>]
    /\ sched_log = [c \in Conns |-> <<>>]
    /\ snd = InitSnd
    /\ wsock = <<>>
    /\ prod = [p \in Producers |-> "idle"]
    /\ \E limit \in {0, SendLimitCfg} : nsend = InitNsend(limit)
    /\ IdleTrans
    /\ IdleAdm

\* The cells of a queued frame: header and payload, numbered from 1.
FrameCells(f) == [k \in 1..f.len |-> <<f.id, k>>]

\* pthread_cond_broadcast(&st->send_wait): every producer inside
\* pthread_cond_wait returns from it.
BroadcastSendWait(pr) == [p \in Producers |-> IF pr[p] = "waiting" THEN "idle" ELSE pr[p]]

\* A registration that does nothing.
dnet_schedule_send_Noop(s) == s

\* dnet_schedule_send -> dnet_schedule_network_io(st, 1) (pool.c:767-826): on
\* a connection being reset nothing is registered; otherwise EPOLL_CTL_ADD of
\* write_s for EPOLLOUT, where EEXIST on a registered socket counts as success.
dnet_schedule_send(s) == IF s.need_exit # "OK" THEN s ELSE [s EXCEPT !.armed = TRUE]

\* dnet_unschedule_send (pool.c:684): EPOLL_CTL_DEL of write_s.
dnet_unschedule_send(s) == [s EXCEPT !.armed = FALSE]

\* A producer queues a frame: list_add_tail under the send lock, then
\* dnet_schedule_send, which registers write readiness unless the connection
\* is being reset.
ProdEnqueue(p) ==
    /\ prod[p] = "idle"
    /\ Len(snd.enq) < MaxSend
    /\ \E len \in 1..MaxFrameLen :
          snd' = dnet_schedule_send(
                    [snd EXCEPT !.send_list = Append(@, [id |-> Len(snd.enq) + 1, len |-> len]),
                                !.enq = Append(@, [id |-> Len(snd.enq) + 1, len |-> len])])
    /\ prod' = [prod EXCEPT ![p] = "inc"]
    /\ UNCHANGED <<wsock, nsend, recvVars, transVars, admVars, accVars>>

\* The producer counts its frame in send_queue_size and, when the count has
\* reached the high watermark, goes on to wait for the send condition.
ProdCount(p) ==
    /\ prod[p] = "inc"
    /\ snd' = [snd EXCEPT !.send_queue_size = @ + 1]
    /\ prod' = [prod EXCEPT ![p] = IF snd.send_queue_size + 1 >= DNET_SEND_WATERMARK_HIGH
                                   THEN "park" ELSE "idle"]
    /\ UNCHANGED <<wsock, nsend, recvVars, transVars, admVars, accVars>>

\* The producer enters pthread_cond_wait on send_wait.
ProdWait(p) ==
    /\ prod[p] = "park"
    /\ prod' = [prod EXCEPT ![p] = "waiting"]
    /\ UNCHANGED <<snd, wsock, nsend, recvVars, transVars, admVars, accVars>>

\* dnet_io_process_network takes an EPOLLOUT event of the connection and
\* enters dnet_state_net_process -> dnet_process_send_single.
NetSendEvent ==
    /\ nsend.pc = "wait"
    /\ snd.armed
    /\ snd.need_exit = "OK"
    /\ nsend' = [nsend EXCEPT !.pc = "pick", !.counter = 0, !.err = "OK", !.r = 0,
                              !.start = Len(snd.enq) - Len(snd.send_list),
                              !.woke = {}]
    /\ UNCHANGED <<snd, wsock, prod, recvVars, transVars, admVars, accVars>>

\* A send handler that takes the newest frame of the list instead of the head.
SendHead_Last(list) == list[Len(list)]

\* list_first_entry(&st->send_list).
SendHead(list) == Head(list)

\* pool.c:709-720: under the send lock take the head of the send list, or
\* with an empty list remove write readiness and leave with -EAGAIN.
SendPick ==
    /\ nsend.pc = "pick"
    /\ IF snd.send_list # <<>>
       THEN /\ nsend' = [nsend EXCEPT !.pc = "write", !.r = SendHead(snd.send_list).id]
            /\ UNCHANGED snd
       ELSE /\ nsend' = [nsend EXCEPT !.pc = "exit", !.r = 0, !.err = EAGAIN]
            /\ snd' = dnet_unschedule_send(snd)
    /\ UNCHANGED <<wsock, prod, recvVars, transVars, admVars, accVars>>

FrameById(list, id) == CHOOSE f \in Range(list) : f.id = id

\* dnet_send_request: write the frame from send_offset on.  The socket takes
\* n cells; the call returns 0 when the frame is complete, -EAGAIN when the
\* socket took only a part, or another error.
dnet_send_request(s, f, n, err) ==
    [snd |-> [s EXCEPT !.send_offset = @ + n],
     cells |-> SubSeq(FrameCells(f), s.send_offset + 1, s.send_offset + n),
     err |-> IF s.send_offset + n = f.len THEN "OK" ELSE err]

\* pool.c:722: one call of dnet_send_request on the frame taken.
SendWrite ==
    /\ nsend.pc = "write"
    /\ LET f == FrameById(snd.send_list, nsend.r)
       IN  \E n \in 0..(f.len - snd.send_offset), err \in {EAGAIN, ECONNRESET} :
              LET res == dnet_send_request(snd, f, n, err)
              IN  /\ snd' = res.snd
                  /\ wsock' = wsock \o res.cells
                  /\ nsend' = [nsend EXCEPT !.err = res.err,
                                            !.pc = IF res.err = "OK" THEN "done" ELSE "exit"]
    /\ UNCHANGED <<prod, recvVars, transVars, admVars, accVars>>

\* list_del(&r->req_entry).
SendListDel(list, id) == SelectSeq(list, LAMBDA f : f.id # id)

SendLimitReached_Never(limit, counter) == FALSE

\* pool.c:749: st->n->send_limit && ++counter >= st->n->send_limit.
SendLimitReached(limit, counter) == limit # 0 /\ counter + 1 >= limit

\* A send handler that never finds the low watermark reached.
LowWatermarkReached_Never(size) == FALSE

\* pool.c:735: atomic_dec(&st->send_queue_size) == DNET_SEND_WATERMARK_LOW,
\* size being the decremented count.
LowWatermarkReached(size) == size = DNET_SEND_WATERMARK_LOW

\* pool.c:724-754: the frame written completely leaves the list, the queue
\* count drops and the low watermark wakes the producers; the loop goes on
\* unless send_limit is reached.
SendDone ==
    /\ nsend.pc = "done"
    /\ LET dec == snd.send_queue_size > 0
           size == IF dec THEN snd.send_queue_size - 1 ELSE snd.send_queue_size
           capped == SendLimitReached(nsend.limit, nsend.counter)
       IN  /\ snd' = [snd EXCEPT !.send_list = SendListDel(@, nsend.r),
                                 !.send_queue_size = size,
                                 !.send_offset = 0]
           /\ prod' = IF dec /\ LowWatermarkReached(size)
                      THEN BroadcastSendWait(prod) ELSE prod
           /\ nsend' = [nsend EXCEPT !.counter = IF nsend.limit # 0 THEN @ + 1 ELSE @,
                                     !.pc = IF capped THEN "exit" ELSE "pick",
                                     !.woke = IF dec /\ LowWatermarkReached(size)
                                              THEN @ \cup {p \in Producers : prod[p] = "waiting"}
                                              ELSE @]
    /\ UNCHANGED <<wsock, recvVars, transVars, admVars, accVars>>

\* pool.c:760-764 and the reactor's handling of the result (pool.c:988-1016):
\* a negative result with a non-zero queue count wakes the producers; an
\* error other than -EAGAIN resets the connection.
SendExit ==
    /\ nsend.pc = "exit"
    /\ prod' = IF nsend.err # "OK" /\ snd.send_queue_size > 0
               THEN BroadcastSendWait(prod) ELSE prod
    /\ snd' = IF nsend.err \in {"OK", EAGAIN} THEN snd
              ELSE [snd EXCEPT !.need_exit = nsend.err, !.armed = FALSE]
    /\ nsend' = [nsend EXCEPT !.pc = "wait"]
    /\ UNCHANGED <<wsock, recvVars, transVars, admVars, accVars>>

NextSend ==
    \/ \E p \in Producers : ProdEnqueue(p)
    \/ \E p \in Producers : ProdCount(p)
    \/ \E p \in Producers : ProdWait(p)
    \/ NetSendEvent
    \/ SendPick
    \/ SendWrite
    \/ SendDone
    \/ SendExit

SpecSend == InitSend /\ [][NextSend]_vars

\* The reactor thread runs: epoll_wait reports a registered EPOLLOUT, which is
\* level-triggered, and the handler's steps are taken; a socket reported
\* writable again and again eventually takes data.
FairSend ==
    /\ WF_vars(NetSendEvent)
    /\ WF_vars(SendPick)
    /\ WF_vars(SendWrite)
    /\ WF_vars(SendDone)
    /\ WF_vars(SendExit)
    /\ SF_vars(SendWrite /\ Len(wsock') > Len(wsock))

SpecSendFair == InitSend /\ [][NextSend]_vars /\ FairSend

\* ------------------------------------------------------------------------
\* Claims on the send path
\* ------------------------------------------------------------------------

RECURSIVE AllCells(_)
AllCells(frames) ==
    IF frames = <<>> THEN <<>> ELSE FrameCells(Head(frames)) \o AllCells(Tail(frames))

\* Frames that have left the send list.
SentFrames == SubSeq(snd.enq, 1, Len(snd.enq) - Len(snd.send_list))

\* C2: the cells written to the socket are the frames in the order they were
\* queued: what has been written is a prefix of the queued frames' cells; the
\* frames that left the list were written completely, and the frame at the
\* head has been written up to send_offset, so a frame that met EAGAIN or a
\* partial write is still at the head and no cell of a later frame precedes
\* the rest of it.
C2_WrittenInEnqueueOrder ==
    /\ wsock = SubSeq(AllCells(snd.enq), 1, Len(wsock))
    /\ snd.send_list = SubSeq(snd.enq, Len(snd.enq) - Len(snd.send_list) + 1, Len(snd.enq))
    /\ Len(wsock) = Len(AllCells(SentFrames)) + snd.send_offset

\* After one frame was written completely, the next one met EAGAIN after a
\* partial write and stays at the head, with a later frame queued behind it.
C2_Witness ==
    /\ Len(snd.enq) = 3
    /\ Len(snd.send_list) = 2
    /\ snd.send_offset = 1
    /\ nsend.pc = "exit" /\ nsend.err = EAGAIN

\* Nothing but a new frame from a producer can make the send side move: the
\* reactor is out of the send handler with write readiness removed, and every
\* producer is idle or inside pthread_cond_wait.
SendQuiescent ==
    /\ nsend.pc = "wait"
    /\ ~snd.armed
    /\ \A p \in Producers : prod[p] \in {"idle", "waiting"}

\* C7: no lost wakeup on the send watermark: a producer parked on send_wait
\* is woken once the reactor's sends have brought the queue count below the
\* low watermark.  Stated on the states from which only new traffic can wake
\* it: there no producer is still waiting with the count below the low
\* watermark.
C7_NoLostWakeup ==
    ~ /\ SendQuiescent
      /\ snd.need_exit = "OK"
      /\ snd.send_queue_size < DNET_SEND_WATERMARK_LOW
      /\ \E p \in Producers : prod[p] = "waiting"

\* Complete frames the current (or, between invocations, the last) invocation
\* of the send handler has taken off the list.
SentThisCall == Len(SentFrames) - nsend.start

\* C12: with send_limit = L > 0 one invocation of the send handler completes
\* at most L frames; when it returns because of the cap it returns 0 after
\* exactly L frames, the frames behind them are still queued in their order
\* and write readiness is still registered. With send_limit = 0 the handler
\* returns only with a non-zero result: the list was found empty, or the
\* send of the frame at the head did not complete and that frame stays there.
C12_SendLimitCap ==
    /\ nsend.limit > 0 => SentThisCall <= nsend.limit
    /\ (nsend.pc = "exit" /\ nsend.err = "OK") =>
          /\ nsend.limit > 0
          /\ SentThisCall = nsend.limit
          /\ snd.armed
          /\ snd.send_list = SubSeq(snd.enq, nsend.start + nsend.limit + 1, Len(snd.enq))
    /\ (nsend.pc = "exit" /\ nsend.err # "OK") =>
          \/ nsend.r = 0
          \/ /\ snd.send_list # <<>>
             /\ Head(snd.send_list).id = nsend.r
             /\ snd.send_offset < Head(snd.send_list).len

\* The cap ends an invocation after send_limit frames with a frame left.
C12_Witness ==
    /\ nsend.pc = "exit"
    /\ nsend.err = "OK"
    /\ nsend.limit > 0
    /\ SentThisCall = nsend.limit
    /\ snd.send_list # <<>>

\* The step is the send handler taking a completely written frame off the
\* list (pool.c:724-754).
FrameSent == nsend.pc = "done" /\ nsend'.pc # "done"

\* The step takes every producer that is inside pthread_cond_wait out of it.
SendWaitBroadcast == \A p \in Producers : prod[p] = "waiting" => prod'[p] = "idle"

\* C22 as stated: a frame sent successfully that takes the send-queue count
\* from DNET_SEND_WATERMARK_LOW or above to below it broadcasts the send
\* condition.
C22_BroadcastBelowLowWatermark ==
    [][(/\ FrameSent
        /\ snd.send_queue_size >= DNET_SEND_WATERMARK_LOW
        /\ snd'.send_queue_size < DNET_SEND_WATERMARK_LOW) => SendWaitBroadcast]_vars

\* C22, amended: a frame sent successfully broadcasts the send condition
\* exactly when it decrements the send-queue count to DNET_SEND_WATERMARK_LOW:
\* the step from one above the low watermark to the low watermark wakes every
\* waiting producer, and a successful send that finds the count at 0, or
\* takes it to another value, wakes none.
C22_BroadcastAtLowWatermark ==
    [][FrameSent =>
          IF /\ snd.send_queue_size > 0
             /\ snd'.send_queue_size = DNET_SEND_WATERMARK_LOW
          THEN SendWaitBroadcast
          ELSE prod' = prod]_vars

\* The send that brought the count to the low watermark has woken a producer
\* that was waiting on the high watermark.
C22_Witness ==
    /\ nsend.pc = "pick"
    /\ nsend.woke # {}
    /\ snd.send_queue_size = DNET_SEND_WATERMARK_LOW
    /\ \A p \in nsend.woke : prod[p] = "idle"

\* Frame id is on the send list.
Queued(id) == \E i \in 1..Len(snd.send_list) : snd.send_list[i].id = id

TransConn == CHOOSE c \in Conns : TRUE

InitTransSpec ==
    /\ peer = [c \in Conns |-> [frames |-> <<>>, sent |-> 0, rd |-> 0, state |-> "open"]]
    /\ st = [c \in Conns |-> InitState]
    /\ net = [r \in Reactors |-> InitNet]
    /\ pools = [p \in Places |-> <<>>]
    /\ sched_log = [c \in Conns |-> <<>>]
    /\ IdleSend
    /\ IdleTrans
    /\ IdleAdm

\* The completion callback of a transaction is invoked with these flags.
Complete(log, t, flags) == [log EXCEPT ![t] = Append(@, flags)]

\* issue(entry): the next id, inserted into both indices.
TransIssue ==
    /\ trans.need_exit = "OK"
    /\ trans.next <= MaxTrans
    /\ trans' = [trans EXCEPT !.next = @ + 1,
                              !.ids = @ \cup {trans.next},
                              !.timer = Append(@, trans.next)]
    /\ UNCHANGED <<cb_log, recvVars, sendVars, admVars, accVars>>

\* Flags of the reply frames a peer sends: more frames follow, the last frame,
\* the last frame marked as the end of the transaction.
ReplyFlags ==
    {{DNET_FLAGS_REPLY, DNET_FLAGS_MORE}, {DNET_FLAGS_REPLY},
     {DNET_FLAGS_REPLY, DNET_FLAGS_DESTROY}}

\* The flags of the frames a peer sends on the connection: replies, and
\* requests, which carry no REPLY flag.
FrameFlags == ReplyFlags \cup {{}}

ReplyCmd(t, flags) ==
    [id |-> "k0", cmd |-> "AUTH", flags |-> flags, trans |-> t, size |-> 0, backend_id |-> 0]

\* The reactor completes a reply frame of the peer and hands it to
\* dnet_schedule_io: the transaction, if registered, leaves the timer index and
\* the frame is queued for a worker.
TransReplyRecv ==
    /\ trans.need_exit = "OK"
    /\ trans.replies < MaxReplies
    /\ \E t \in 1..MaxTrans, flags \in FrameFlags :
          LET cmd == ReplyCmd(t, flags)
          IN  /\ trans' = [dnet_update_trans_timestamp_network(trans, cmd)
                              EXCEPT !.replies = @ + 1]
              /\ pools' = dnet_schedule_io(pools, RequestOf(TransConn, cmd))
    /\ UNCHANGED <<cb_log, peer, st, net, sched_log, sendVars, admVars, accVars>>

\* destroy(id): the transaction leaves both indices.
dnet_trans_remove_Keep(tr, t) == tr

dnet_trans_remove(tr, t) ==
    [tr EXCEPT !.ids = @ \ {t}, !.timer = SelectSeq(@, LAMBDA x : x # t),
               !.refreshed = @ \ {t}]

\* A worker handles a queued frame: a request completes no transaction; a
\* reply is handled under the transaction lock: a reply whose transaction is
\* not registered is dropped; a reply with MORE is passed to
\* the callback; the last reply completes and destroys the transaction.
TransReplyProcess(p) ==
    /\ pools[p] # <<>>
    /\ pools' = [pools EXCEPT ![p] = Tail(@)]
    /\ LET cmd == CmdOf(Head(pools[p]).header)
           t == cmd.trans
       IN  IF DNET_FLAGS_REPLY \notin cmd.flags \/ t \notin trans.ids
           THEN UNCHANGED <<trans, cb_log>>
           ELSE IF DNET_FLAGS_MORE \in cmd.flags
           THEN /\ cb_log' = Complete(cb_log, t, cmd.flags)
                /\ UNCHANGED trans
           ELSE /\ cb_log' = Complete(cb_log, t, {DNET_FLAGS_REPLY, DNET_FLAGS_DESTROY})
                /\ trans' = dnet_trans_remove(trans, t)
    /\ UNCHANGED <<peer, st, net, sched_log, sendVars, admVars, accVars>>

\* sweep(now): the entry at the front of the timer index, its deadline passed,
\* is completed with a timeout.
TransSweep ==
    /\ trans.need_exit = "OK"
    /\ trans.timer # <<>>
    /\ LET t == Head(trans.timer)
       IN  /\ cb_log' = Complete(cb_log, t, {DNET_FLAGS_DESTROY})
           /\ trans' = dnet_trans_remove(trans, t)
    /\ UNCHANGED <<recvVars, sendVars, admVars, accVars>>

RECURSIVE CompleteAll(_, _)
CompleteAll(log, ts) ==
    IF ts = {} THEN log
    ELSE LET t == CHOOSE x \in ts : TRUE
         IN  CompleteAll(Complete(log, t, {DNET_FLAGS_DESTROY}), ts \ {t})

\* reset(conn, err), from the reactor on an error or from node shutdown
\* (dnet_io_cleanup_states): every outstanding transaction is completed with
\* the error.
TransReset ==
    /\ trans.need_exit = "OK"
    /\ \E err \in {ECONNRESET, EUCLEAN} :
          trans' = [trans EXCEPT !.need_exit = err, !.ids = {}, !.timer = <<>>,
                                  !.refreshed = {}]
    /\ cb_log' = CompleteAll(cb_log, trans.ids)
    /\ UNCHANGED <<recvVars, sendVars, admVars, accVars>>

NextTrans ==
    \/ TransIssue
    \/ TransReplyRecv
    \/ \E p \in Places : TransReplyProcess(p)
    \/ TransSweep
    \/ TransReset

SpecTrans == InitTransSpec /\ [][NextTrans]_vars

\* ------------------------------------------------------------------------
\* Claims on transactions
\* ------------------------------------------------------------------------

Issued(t) == t < trans.next

DestroyCalls(t) == {i \in 1..Len(cb_log[t]) : DNET_FLAGS_DESTROY \in cb_log[t][i]}

Reception == trans'.replies = trans.replies + 1

\* The place whose queue grew by one request in the step.
QueuedAt(p) ==
    /\ Len(pools'[p]) = Len(pools[p]) + 1
    /\ SubSeq(pools'[p], 1, Len(pools[p])) = pools[p]

\* The headers of the requests the step queued.
NewFrames == {CmdOf(pools'[p][Len(pools'[p])].header) : p \in {q \in Places : QueuedAt(q)}}

\* The step is the timeout sweep completing transaction t.
SweptNow(t) ==
    /\ trans'.need_exit = "OK"
    /\ Len(cb_log'[t]) = Len(cb_log[t]) + 1
    /\ cb_log'[t][Len(cb_log'[t])] = {DNET_FLAGS_DESTROY}

\* The registry apart from the count of received frames.
Registry(tr) == <<tr.next, tr.ids, tr.timer, tr.refreshed, tr.need_exit>>

\* C18: a received frame with REPLY whose transaction is registered refreshes
\* the transaction's timestamp and takes it out of the timer index in one step
\* under the transaction lock, and the transaction stays in the id index; a
\* transaction a reply has matched is in the id index and not in the timer
\* index for as long as it is registered, and the timeout sweep never
\* completes it. A received frame without REPLY leaves the registry as it was.
C18_ReplyDemux ==
    /\ [](\A t \in trans.refreshed : t \in trans.ids /\ t \notin Range(trans.timer))
    /\ [][/\ Reception =>
               \A cmd \in NewFrames :
                   IF DNET_FLAGS_REPLY \notin cmd.flags
                   THEN Registry(trans') = Registry(trans)
                   ELSE cmd.trans \in trans.ids =>
                           /\ trans'.ids = trans.ids
                           /\ trans'.refreshed = trans.refreshed \cup {cmd.trans}
                           /\ trans'.timer = SelectSeq(trans.timer, LAMBDA x : x # cmd.trans)
           /\ \A t \in 1..MaxTrans : SweptNow(t) => t \notin trans.refreshed]_vars

\* A reply matched transaction 1, which waits in a queue out of the timer
\* index, while the sweep completed transaction 2, and a request frame was
\* received as well.
C18_Witness ==
    /\ trans.need_exit = "OK"
    /\ 1 \in trans.refreshed
    /\ cb_log[1] = <<>>
    /\ cb_log[2] = <<{DNET_FLAGS_DESTROY}>>
    /\ \E p \in Places : \E i \in 1..Len(pools[p]) :
          LET cmd == CmdOf(pools[p][i].header)
          IN  cmd.trans = 1 /\ DNET_FLAGS_REPLY \in cmd.flags
    /\ \E p \in Places : \E i \in 1..Len(pools[p]) :
          CmdOf(pools[p][i].header).flags = {}

\* A reply whose transaction id is not registered on the connection.
Stray(cmd) == DNET_FLAGS_REPLY \in cmd.flags /\ cmd.trans \notin trans.ids

\* The step is a worker taking the request at the head of the queue of p.
PoppedAt(p) == pools[p] # <<>> /\ pools'[p] = Tail(pools[p])

\* C19 as stated: a reply whose transaction id is not registered is not
\* pushed into any work-pool queue, and no completion callback is invoked
\* for it.
C19_StrayNotQueued ==
    [][/\ Reception => \A cmd \in NewFrames : ~Stray(cmd)
       /\ \A p \in Places :
             (PoppedAt(p) /\ Stray(CmdOf(Head(pools[p]).header))) => cb_log' = cb_log]_vars

\* C19, amended: the reception of a frame queues it in exactly one pool,
\* a stray reply as any other frame; the reception of a stray changes no
\* transaction and invokes no callback, and the worker that takes a reply
\* whose transaction id is not registered at that time drops it: no callback
\* is invoked and no transaction changes.
C19_StrayQueuedThenDropped ==
    [][/\ Reception =>
             /\ Cardinality({q \in Places : QueuedAt(q)}) = 1
             /\ \A q \in Places : QueuedAt(q) \/ pools'[q] = pools[q]
             /\ \A cmd \in NewFrames :
                   Stray(cmd) => Registry(trans') = Registry(trans) /\ cb_log' = cb_log
       /\ \A p \in Places :
             (PoppedAt(p) /\ Stray(CmdOf(Head(pools[p]).header))) =>
                 cb_log' = cb_log /\ trans' = trans]_vars

\* A stray reply for a transaction id that was never issued waits in a pool
\* queue, and a worker has dropped another one: no callback has been invoked.
C19_Witness ==
    /\ trans.need_exit = "OK"
    /\ trans.next = 1
    /\ trans.replies = 2
    /\ Cardinality({p \in Places : pools[p] # <<>>}) = 1
    /\ \A p \in Places : Len(pools[p]) <= 1
    /\ \A p \in Places : \A i \in 1..Len(pools[p]) : Stray(CmdOf(pools[p][i].header))
    /\ \A t \in 1..MaxTrans : cb_log[t] = <<>>

\* ------------------------------------------------------------------------
\* Admission: dnet_check_io
\* ------------------------------------------------------------------------

\* The factor of the admission threshold (pool.c:888).
QueueFactor == 1000

\* The backends of the pools manager.
Backends == {1}

\* dnet_check_work_pool_place: a place that holds a pool adds the pool's queue
\* size and thread count to the running sums.
dnet_check_work_pool_place(pl, acc) ==
    IF pl = NoPool THEN acc
    ELSE [queue_size |-> acc.queue_size + pl[1].queue_size,
          threads_count |-> acc.threads_count + pl[1].num]

\* dnet_check_io_pool: the blocking place, then the non-blocking place.
dnet_check_io_pool(pls, b, acc) ==
    dnet_check_work_pool_place(pls[<<b, 1>>],
        dnet_check_work_pool_place(pls[<<b, 0>>], acc))

\* dnet_io_pools_check: the same for the pools of every backend.
RECURSIVE dnet_io_pools_check(_, _, _)
dnet_io_pools_check(pls, bs, acc) ==
    IF bs = {} THEN acc
    ELSE LET b == CHOOSE x \in bs : TRUE
         IN  dnet_io_pools_check(pls, bs \ {b}, dnet_check_io_pool(pls, b, acc))

CheckIoSums(pls) ==
    dnet_io_pools_check(pls, Backends,
        dnet_check_io_pool(pls, -1, [queue_size |-> 0, threads_count |-> 0]))

dnet_check_io_Strict(pls) ==
    IF CheckIoSums(pls).queue_size < CheckIoSums(pls).threads_count * QueueFactor THEN 1 ELSE 0

dnet_check_io_Open(pls) == 1

dnet_check_io(pls) ==
    IF CheckIoSums(pls).queue_size <= CheckIoSums(pls).threads_count * QueueFactor THEN 1 ELSE 0

\* ------------------------------------------------------------------------
\* SpecCheckIo: dnet_check_io on drawn pool configurations
\* ------------------------------------------------------------------------

MaxPoolNum == 2

QueueSizes == {0, QueueFactor, QueueFactor + 1, 2 * QueueFactor, 2 * QueueFactor + 1}

PoolCfgs == {NoPool} \cup {Pool(q, k) : q \in QueueSizes, k \in 1..MaxPoolNum}

InitCheckIo ==
    /\ peer = [c \in Conns |-> [frames |-> <<>>, sent |-> 0, rd |-> 0, state |-> "open"]]
    /\ st = [c \in Conns |-> InitState]
    /\ net = [r \in Reactors |-> InitNet]
    /\ pools = [p \in Places |-> <<>>]
    /\ sched_log = [c \in Conns |-> <<>>]
    /\ IdleSend
    /\ IdleTrans
    /\ halt = InitHalt
    /\ places \in [Places -> PoolCfgs]
    /\ IdleAcc
    /\ wio = InitWio(places)
    /\ nio = [r \in NetThreads |-> InitNio]
    /\ asock = [c \in AdmConns |-> [rd |-> 0, out |-> FALSE]]
    /\ blocked = 0
    /\ node = InitNode
    /\ chk = InitChk

CheckIo ==
    /\ ~chk.done
    /\ chk' = [done |-> TRUE,
               queue_size |-> CheckIoSums(places).queue_size,
               threads_count |-> CheckIoSums(places).threads_count,
               ret |-> dnet_check_io(places)]
    /\ UNCHANGED <<recvVars, sendVars, transVars, places, nio, asock, blocked, node, wio, halt, accVars>>

NextCheckIo == CheckIo

SpecCheckIo == InitCheckIo /\ [][NextCheckIo]_vars

RECURSIVE SumOver(_, _, _)
SumOver(pls, ps, field) ==
    IF ps = {} THEN 0
    ELSE LET p == CHOOSE x \in ps : TRUE
         IN  pls[p][1][field] + SumOver(pls, ps \ {p}, field)

WithPool(pls) == {p \in Places : pls[p] # NoPool}

QueuedSize(pls) == SumOver(pls, WithPool(pls), "queue_size")

WorkerCount(pls) == SumOver(pls, WithPool(pls), "num")

\* C5: dnet_check_io returns 1 exactly when the queue sizes of the global
\* pools and of every backend pool sum to at most 1000 times the sum of their
\* thread counts, and 0 otherwise; a place without a pool adds nothing to
\* either sum.
C5_CheckIoIffWithinThreshold ==
    chk.done =>
        /\ chk.queue_size = QueuedSize(places)
        /\ chk.threads_count = WorkerCount(places)
        /\ chk.ret = 1 <=> QueuedSize(places) <= QueueFactor * WorkerCount(places)
        /\ chk.ret = 0 <=> QueuedSize(places) > QueueFactor * WorkerCount(places)

\* Exactly at the threshold, with a backend pool counted and an empty place.
C5_Witness ==
    /\ chk.done
    /\ chk.ret = 1
    /\ QueuedSize(places) = QueueFactor * WorkerCount(places)
    /\ QueuedSize(places) > 0
    /\ places[<<1, 0>>] # NoPool
    /\ places[<<1, 1>>] = NoPool

\* ------------------------------------------------------------------------
\* SpecAdm: reactor threads under admission control, peers, workers
\* ------------------------------------------------------------------------

\* The place non-backend blocking requests are queued at.
AdmPlace == <<-1, 0>>

\* The requests waiting in the blocking pool when the run starts: a backlog
\* one short of the admission threshold, left by earlier traffic the workers
\* have not taken yet.
Backlog(pls) == QueueFactor * WorkerCount(pls) - 1

InitAdm ==
    /\ peer = [c \in Conns |-> [frames |-> <<>>, sent |-> 0, rd |-> 0, state |-> "open"]]
    /\ st = [c \in Conns |-> InitState]
    /\ net = [r \in Reactors |-> InitNet]
    /\ pools = [p \in Places |-> <<>>]
    /\ sched_log = [c \in Conns |-> <<>>]
    /\ IdleSend
    /\ IdleTrans
    /\ places = [InitPlace EXCEPT ![AdmPlace][1].queue_size = Backlog(InitPlace)]
    /\ wio = InitWio(InitPlace)
    /\ halt = InitHalt
    /\ IdleAcc
    /\ nio = [r \in NetThreads |-> InitNio]
    /\ asock = [c \in AdmConns |-> [rd |-> 0, out |-> FALSE]]
    /\ blocked = 0
    /\ node = InitNode
    /\ chk = InitChk

\* A broadcast that reaches nobody.
BroadcastFullWait_None(ns) == ns

\* pthread_cond_broadcast(&n->io->full_wait): every reactor inside
\* pthread_cond_timedwait is woken; a reactor that is not waiting yet misses it.
BroadcastFullWait(ns) ==
    [r \in NetThreads |-> IF ns[r].pc = "parkwait" THEN [ns[r] EXCEPT !.pc = "woken"] ELSE ns[r]]

\* n->io->full_lock is held by a reactor between its admission check inside
\* the parking loop and its wait.
FullLockFree == \A r \in NetThreads : nio[r].pc \notin {"parkcheck", "parkenter"}

\* The peer sends one more frame; it waits in the socket buffer.
AdmPeerSend(c) ==
    /\ asock[c].rd < MaxSock
    /\ asock' = [asock EXCEPT ![c].rd = @ + 1]
    /\ UNCHANGED <<places, nio, blocked, node, chk, wio, recvVars, sendVars, transVars, halt, accVars>>

\* dnet_schedule_send (pool.c:767-821): the write socket is registered for
\* EPOLLOUT and full_wait is broadcast.
AdmScheduleSend(c) ==
    /\ c \in SendConns
    /\ ~asock[c].out
    /\ asock' = [asock EXCEPT ![c].out = TRUE]
    /\ nio' = BroadcastFullWait(nio)
    /\ UNCHANGED <<places, blocked, node, chk, wio, recvVars, sendVars, transVars, halt, accVars>>

\* The events epoll_wait reports to a reactor: level-triggered, one event per
\* registration, EPOLLIN for the read socket and EPOLLOUT for the write socket.
EPOLLIN == "EPOLLIN"

EPOLLOUT == "EPOLLOUT"

ReadyEvents(r) ==
    {<<c, EPOLLIN>> : c \in {x \in AdmConns : AdmNetOf(x) = r /\ asock[x].rd > 0}}
    \cup {<<c, EPOLLOUT>> : c \in {x \in AdmConns : AdmNetOf(x) = r /\ asock[x].out}}

\* The condition of the reactor's loop (pool.c:940): the thread enters
\* epoll_wait, or leaves the loop once the node's need_exit is set.
NioLoopTop(r) ==
    /\ nio[r].pc = "wait"
    /\ nio' = [nio EXCEPT ![r].pc = IF node.need_exit = "OK" THEN "epoll" ELSE "exited",
                           ![r].err = "OK"]
    /\ UNCHANGED <<places, asock, blocked, node, chk, wio, recvVars, sendVars, transVars, halt, accVars>>

\* epoll_wait returns the ready events (pool.c:951-970), or 0 after a second
\* without any, and the loop starts over.
NioEpollWait(r) ==
    /\ nio[r].pc = "epoll"
    /\ IF ReadyEvents(r) # {}
       THEN nio' = [nio EXCEPT ![r] = [pc |-> "loop", evs |-> ReadyEvents(r), tmp |-> 0,
                                        sends |-> 0, st |-> NULL, err |-> "OK"]]
       ELSE nio' = [nio EXCEPT ![r].pc = "wait"]
    /\ UNCHANGED <<places, asock, blocked, node, chk, wio, recvVars, sendVars, transVars, halt, accVars>>

\* One event of the batch (pool.c:971-986): a send event is always serviced,
\* here by a pass that empties the send queue and unregisters EPOLLOUT; a
\* receive event is serviced if dnet_check_io grants admission and skipped
\* otherwise.
NioEvent(r) ==
    /\ nio[r].pc = "loop"
    /\ \E e \in nio[r].evs :
          IF e[2] = EPOLLOUT
          THEN /\ asock' = [asock EXCEPT ![e[1]].out = FALSE]
               /\ nio' = [nio EXCEPT ![r].evs = @ \ {e}, ![r].tmp = @ + 1,
                                      ![r].sends = @ + 1]
          ELSE /\ UNCHANGED asock
               /\ IF dnet_check_io(places) = 1
                  THEN nio' = [nio EXCEPT ![r].pc = "recv", ![r].evs = @ \ {e},
                                          ![r].tmp = @ + 1, ![r].st = e[1]]
                  ELSE nio' = [nio EXCEPT ![r].evs = @ \ {e}]
    /\ UNCHANGED <<places, blocked, node, chk, wio, recvVars, sendVars, transVars, halt, accVars>>

\* dnet_process_recv_single completes one frame and dnet_schedule_io queues
\* it; the connection is read by its own reactor only, so the frame it was
\* ready with is still there.
NioRecv(r) ==
    /\ nio[r].pc = "recv"
    /\ LET c == nio[r].st
       IN  /\ asock[c].rd > 0
           /\ asock' = [asock EXCEPT ![c].rd = @ - 1]
           /\ places' = [places EXCEPT ![AdmPlace][1].queue_size = @ + 1]
    /\ nio' = [nio EXCEPT ![r].pc = "loop", ![r].st = NULL]
    /\ UNCHANGED <<blocked, node, chk, wio, recvVars, sendVars, transVars, halt, accVars>>

\* A reactor that parks whenever admission is denied.
ParkAfterBatch_IgnoreEvents(tmp, admitted) == admitted = 0

\* pool.c:1020: tmp == 0 && !dnet_check_io(n->io), tmp being the number of
\* events of the batch that were serviced.
ParkAfterBatch(tmp, admitted) == tmp = 0 /\ admitted = 0

\* After the batch (pool.c:1019-1029): with no event serviced and admission
\* denied the reactor goes to park, otherwise to the next epoll_wait.
NioBatchEnd(r) ==
    /\ nio[r].pc = "loop"
    /\ nio[r].evs = {}
    /\ nio' = [nio EXCEPT ![r].pc =
                  IF ParkAfterBatch(nio[r].tmp, dnet_check_io(places)) THEN "park" ELSE "wait"]
    /\ UNCHANGED <<places, asock, blocked, node, chk, wio, recvVars, sendVars, transVars, halt, accVars>>

\* pool.c:1028-1029: full_lock is taken and blocked is set.
NioParkLock(r) ==
    /\ nio[r].pc = "park"
    /\ FullLockFree
    /\ blocked' = 1
    /\ nio' = [nio EXCEPT ![r].pc = "parkcheck"]
    /\ UNCHANGED <<places, asock, node, chk, wio, recvVars, sendVars, transVars, halt, accVars>>

ParkLoopCond_NoRecheck(need_exit, pls) == TRUE

ParkLoopCond_NoExit(need_exit, pls) == dnet_check_io(pls) = 0

ParkLoopCond(need_exit, pls) == need_exit = "OK" /\ dnet_check_io(pls) = 0

\* The condition of the parking loop (pool.c:1030), evaluated under
\* full_lock: while it holds the reactor goes on to pthread_cond_timedwait;
\* otherwise it clears blocked, unlocks and returns to the top of its loop.
NioParkCheck(r) ==
    /\ nio[r].pc = "parkcheck"
    /\ IF ParkLoopCond(node.need_exit, places)
       THEN /\ nio' = [nio EXCEPT ![r].pc = "parkenter"]
            /\ UNCHANGED blocked
       ELSE /\ nio' = [nio EXCEPT ![r].pc = "wait"]
            /\ blocked' = 0
    /\ UNCHANGED <<places, asock, node, chk, wio, recvVars, sendVars, transVars, halt, accVars>>

\* pthread_cond_timedwait (pool.c:1031-1033) releases full_lock and starts to
\* wait; a broadcast made since the check is not seen.
NioParkWait(r) ==
    /\ nio[r].pc = "parkenter"
    /\ nio' = [nio EXCEPT ![r].pc = "parkwait"]
    /\ UNCHANGED <<places, asock, blocked, node, chk, wio, recvVars, sendVars, transVars, halt, accVars>>

\* pthread_cond_timedwait times out after one second: the loop condition is
\* evaluated again under full_lock.
NioParkTimeout(r) ==
    /\ nio[r].pc = "parkwait"
    /\ FullLockFree
    /\ nio' = [nio EXCEPT ![r].pc = "parkcheck"]
    /\ UNCHANGED <<places, asock, blocked, node, chk, wio, recvVars, sendVars, transVars, halt, accVars>>

\* pthread_cond_timedwait returned 0 (pool.c:1033-1036): break, blocked is
\* cleared, full_lock released.
NioParkWoken(r) ==
    /\ nio[r].pc = "woken"
    /\ FullLockFree
    /\ blocked' = 0
    /\ nio' = [nio EXCEPT ![r].pc = "wait"]
    /\ UNCHANGED <<places, asock, node, chk, wio, recvVars, sendVars, transVars, halt, accVars>>

\* The condition of the worker's loop (pool.c:1085): the thread calls
\* dnet_pop_request again, or leaves the loop once the node's need_exit is set.
WorkerLoop(need_exit) == IF need_exit = "OK" THEN "pop" ELSE "exited"

\* dnet_io_process (pool.c:1085-1088): dnet_pop_request hands the worker a
\* request off the queue.
WorkerPop(p, i) ==
    /\ i \in DOMAIN wio[p]
    /\ places[p] # NoPool
    /\ wio[p][i] = "pop"
    /\ places[p][1].queue_size > 0
    /\ node.popped < MaxPops
    /\ places' = [places EXCEPT ![p][1].queue_size = @ - 1]
    /\ node' = [node EXCEPT !.popped = @ + 1]
    /\ wio' = [wio EXCEPT ![p][i] = "got"]
    /\ UNCHANGED <<nio, asock, blocked, chk, recvVars, sendVars, transVars, halt, accVars>>

\* dnet_io_process (pool.c:1090): the worker broadcasts full_wait, without
\* full_lock, and enters the handler.
WorkerBroadcast(p, i) ==
    /\ i \in DOMAIN wio[p]
    /\ wio[p][i] = "got"
    /\ wio' = [wio EXCEPT ![p][i] = "busy"]
    /\ nio' = BroadcastFullWait(nio)
    /\ UNCHANGED <<places, asock, blocked, node, chk, recvVars, sendVars, transVars, halt, accVars>>

\* dnet_io_process (pool.c:1091-1118): the handler returns, the request is
\* released and freed, the connection reference dropped; the loop starts over.
WorkerDone(p, i) ==
    /\ i \in DOMAIN wio[p]
    /\ places[p] # NoPool
    /\ wio[p][i] = "busy"
    /\ wio' = [wio EXCEPT ![p][i] = WorkerLoop(node.need_exit)]
    /\ UNCHANGED <<places, nio, asock, blocked, node, chk, recvVars, sendVars, transVars, halt, accVars>>

\* Index range of the threads of a pool.
WorkerIds == 1..(IoThreadNum + NbThreadNum)

NextAdm ==
    \/ \E c \in AdmConns : AdmPeerSend(c)
    \/ \E c \in AdmConns : AdmScheduleSend(c)
    \/ \E r \in NetThreads : NioLoopTop(r)
    \/ \E r \in NetThreads : NioEpollWait(r)
    \/ \E r \in NetThreads : NioEvent(r)
    \/ \E r \in NetThreads : NioRecv(r)
    \/ \E r \in NetThreads : NioBatchEnd(r)
    \/ \E r \in NetThreads : NioParkLock(r)
    \/ \E r \in NetThreads : NioParkCheck(r)
    \/ \E r \in NetThreads : NioParkWait(r)
    \/ \E r \in NetThreads : NioParkTimeout(r)
    \/ \E r \in NetThreads : NioParkWoken(r)
    \/ \E p \in Places : \E i \in WorkerIds : WorkerPop(p, i)
    \/ \E p \in Places : \E i \in WorkerIds : WorkerBroadcast(p, i)
    \/ \E p \in Places : \E i \in WorkerIds : WorkerDone(p, i)

SpecAdm == InitAdm /\ [][NextAdm]_vars

\* The steps of a reactor thread that need no lock, and those that take
\* full_lock: the thread is always scheduled again, a timed wait times out,
\* and a thread waiting for the mutex gets it.
NioStep(r) ==
    \/ NioLoopTop(r) \/ NioEpollWait(r) \/ NioEvent(r) \/ NioRecv(r)
    \/ NioBatchEnd(r) \/ NioParkCheck(r) \/ NioParkWait(r)

NioLockStep(r) == NioParkLock(r) \/ NioParkTimeout(r) \/ NioParkWoken(r)

WorkerStep(p, i) == WorkerPop(p, i) \/ WorkerBroadcast(p, i) \/ WorkerDone(p, i)

FairAdm ==
    /\ \A r \in NetThreads : WF_vars(NioStep(r)) /\ SF_vars(NioLockStep(r))
    /\ \A p \in Places : \A i \in WorkerIds : WF_vars(WorkerStep(p, i))

SpecAdmFair == InitAdm /\ [][NextAdm]_vars /\ FairAdm

\* ------------------------------------------------------------------------
\* Claims on admission
\* ------------------------------------------------------------------------

\* The reactors that passed the admission check of a receive event and are
\* inside dnet_process_recv_single.
InRecv == {r \in NetThreads : nio[r].pc = "recv"}

\* C4 as stated: while the admission predicate is false (queued requests above
\* 1000 times the worker count) no reactor thread is issuing a recv, also with
\* two reactor threads checking admission concurrently.
C4_NoRecvWhileDenied ==
    \A r \in NetThreads : nio[r].pc = "recv" => dnet_check_io(places) = 1

\* C4 amended: a reactor issues a recv only after its own dnet_check_io call
\* for that event returned 1; check and recv are not one atomic step, so with
\* the pools unchanged the queued requests exceed 1000 times the worker count
\* by at most the number of other reactor threads while a recv is issued, and
\* by at most the number of reactor threads at any time.
C4_OvershootBoundedByReactors ==
    QueuedSize(places) + Cardinality(InRecv)
        <= QueueFactor * WorkerCount(places) + Cardinality(NetThreads)

\* A reactor is inside the receive handler while the admission predicate is
\* false: the other reactor queued a request after this one's check.
C4_Witness ==
    \E r \in NetThreads :
        /\ nio[r].pc = "recv"
        /\ dnet_check_io(places) = 0
        /\ QueuedSize(places) = QueueFactor * WorkerCount(places) + Cardinality(NetThreads) - 1

\* The reactor is in the admission wait of pool.c:1028-1037.
Parked(r) == nio[r].pc \in {"park", "parkcheck", "parkenter", "parkwait", "woken"}

\* C6: backpressure does not stall and loses nothing. A reactor does not stay
\* in the admission wait for ever once the workers have brought the queues to
\* or below the threshold, also when the worker's broadcast came between the
\* reactor's check and its wait; a frame waiting in a socket is not left
\* unread for ever while admission is granted; and a frame leaves a socket
\* buffer only by being queued at a pool, a denied event leaving it in place.
C6_BackpressureResumesNothingLost ==
    /\ \A r \in NetThreads : []<>(~Parked(r) \/ dnet_check_io(places) = 0)
    /\ \A c \in AdmConns :
          []<>(asock[c].rd = 0 \/ dnet_check_io(places) = 0 \/ nio[AdmNetOf(c)].pc = "recv")
    /\ [][\A c \in AdmConns :
             asock'[c].rd < asock[c].rd => QueuedSize(places') = QueuedSize(places) + 1]_vars

\* A reactor entered the timed wait after a worker's broadcast: admission is
\* granted again, no worker is left to broadcast, a frame waits in the
\* reactor's socket.
C6_Witness ==
    \E r \in NetThreads :
        /\ nio[r].pc = "parkwait"
        /\ dnet_check_io(places) = 1
        /\ node.popped = MaxPops
        /\ \A p \in Places : \A i \in DOMAIN wio[p] : wio[p][i] # "got"
        /\ \E c \in AdmConns : AdmNetOf(c) = r /\ asock[c].rd > 0

\* ------------------------------------------------------------------------
\* SpecStop: dnet_io_stop and dnet_io_cleanup on a node under load
\* ------------------------------------------------------------------------

\* A server node: the two global pools and the blocking pool of one backend.
InitStopPlace == [InitPlace EXCEPT ![<<1, 0>>] = Pool(0, IoThreadNum)]

InitStopOn(pls) ==
    /\ peer = [c \in Conns |-> [frames |-> <<>>, sent |-> 0, rd |-> 0, state |-> "open"]]
    /\ st = [c \in Conns |-> InitState]
    /\ net = [r \in Reactors |-> InitNet]
    /\ pools = [p \in Places |-> <<>>]
    /\ sched_log = [c \in Conns |-> <<>>]
    /\ IdleSend
    /\ IdleTrans
    /\ places = [pls EXCEPT ![AdmPlace][1].queue_size = Backlog(pls)]
    /\ wio = InitWio(pls)
    /\ halt = InitHalt
    /\ IdleAcc
    /\ nio = [r \in NetThreads |-> InitNio]
    /\ asock = [c \in AdmConns |-> [rd |-> 0, out |-> FALSE]]
    /\ blocked = 0
    /\ node = InitNode
    /\ chk = InitChk

InitStop == InitStopOn(InitStopPlace)

NoPlace == <<0, 0>>

Step(fn, op, p) == [fn |-> fn, op |-> op, place |-> p]

\* dnet_io_cleanup before the pools were stopped.
ShutdownSteps_CleanupFirst ==
    <<Step("dnet_io_stop", "need_exit", NoPlace),
      Step("dnet_io_stop", "join_net", NoPlace),
      Step("dnet_io_stop", "join_acceptor", NoPlace),
      Step("dnet_io_cleanup", "cleanup", <<-1, 1>>),
      Step("dnet_io_cleanup", "cleanup", <<-1, 0>>),
      Step("dnet_io_stop", "stop", <<-1, 1>>),
      Step("dnet_io_stop", "stop", <<-1, 0>>),
      Step("dnet_io_cleanup", "stop", <<1, 0>>),
      Step("dnet_io_cleanup", "cleanup", <<1, 0>>),
      Step("dnet_io_cleanup", "cleanup_states", NoPlace),
      Step("dnet_io_cleanup", "done", NoPlace)>>

\* The operations of dnet_io_stop (pool.c:1269-1287) followed by those of
\* dnet_io_cleanup (pool.c:1289-1306), in program order; dnet_backends_destroy
\* stops and cleans up the pools of every backend (dnet_work_pool_exit).
ShutdownSteps ==
    <<Step("dnet_io_stop", "need_exit", NoPlace),
      Step("dnet_io_stop", "join_net", NoPlace),
      Step("dnet_io_stop", "join_acceptor", NoPlace),
      Step("dnet_io_stop", "stop", <<-1, 1>>),
      Step("dnet_io_stop", "stop", <<-1, 0>>),
      Step("dnet_io_cleanup", "cleanup", <<-1, 1>>),
      Step("dnet_io_cleanup", "cleanup", <<-1, 0>>),
      Step("dnet_io_cleanup", "stop", <<1, 0>>),
      Step("dnet_io_cleanup", "cleanup", <<1, 0>>),
      Step("dnet_io_cleanup", "cleanup_states", NoPlace),
      Step("dnet_io_cleanup", "done", NoPlace)>>

HaltStep == ShutdownSteps[halt.pc]

Advance(h) == [h EXCEPT !.pc = @ + 1, !.i = 1]

\* dnet_set_need_exit.
StopNeedExit ==
    /\ HaltStep.op = "need_exit"
    /\ node' = [node EXCEPT !.need_exit = "EXIT"]
    /\ halt' = Advance(halt)
    /\ UNCHANGED <<places, nio, asock, blocked, chk, wio, recvVars, sendVars, transVars, accVars>>

\* io->net[i] in index order.
NetOrder == <<"net1", "net2">>

\* dnet_net_io_cleanup (pool.c:1159) for each reactor thread in turn:
\* pthread_join returns once the thread has left its loop.
StopJoinNet ==
    /\ HaltStep.op = "join_net"
    /\ IF halt.i > Len(NetOrder)
       THEN /\ halt' = Advance(halt)
            /\ UNCHANGED nio
       ELSE /\ nio[NetOrder[halt.i]].pc = "exited"
            /\ nio' = [nio EXCEPT ![NetOrder[halt.i]].pc = "joined"]
            /\ halt' = [halt EXCEPT !.i = @ + 1]
    /\ UNCHANGED <<places, asock, blocked, node, chk, wio, recvVars, sendVars, transVars, accVars>>

\* The acceptor thread, another dnet_io_process_network loop, leaves it once
\* the node's need_exit is set.
AcceptorExit ==
    /\ halt.acceptor = "run"
    /\ node.need_exit # "OK"
    /\ halt' = [halt EXCEPT !.acceptor = "exited"]
    /\ UNCHANGED <<places, nio, asock, blocked, node, chk, wio, recvVars, sendVars, transVars, accVars>>

\* dnet_net_io_cleanup(&io->acceptor), then n2_native_protocol_io_stop.
StopJoinAcceptor ==
    /\ HaltStep.op = "join_acceptor"
    /\ halt.acceptor = "exited"
    /\ halt' = [Advance(halt) EXCEPT !.acceptor = "joined"]
    /\ UNCHANGED <<places, nio, asock, blocked, node, chk, wio, recvVars, sendVars, transVars, accVars>>

\* dnet_work_pool_stop (pool.c:58-72): every worker of the place's pool that
\* is not joined yet is joined, in index order.
StopPool ==
    /\ HaltStep.op = "stop"
    /\ LET p == HaltStep.place
       IN  IF places[p] = NoPool \/ halt.i > Len(wio[p])
           THEN /\ halt' = Advance(halt)
                /\ UNCHANGED wio
           ELSE /\ wio[p][halt.i] \in {"exited", "joined"}
                /\ wio' = [wio EXCEPT ![p][halt.i] = "joined"]
                /\ halt' = [halt EXCEPT !.i = @ + 1]
    /\ UNCHANGED <<places, nio, asock, blocked, node, chk, recvVars, sendVars, transVars, accVars>>

\* dnet_work_pool_cleanup (pool.c:74-106): the workers' reply and request
\* lists are drained, the queue destroyed, the pool freed, place->pool = NULL.
CleanupPool ==
    /\ HaltStep.op = "cleanup"
    /\ places' = [places EXCEPT ![HaltStep.place] = NoPool]
    /\ halt' = Advance(halt)
    /\ UNCHANGED <<nio, asock, blocked, node, chk, wio, recvVars, sendVars, transVars, accVars>>

\* dnet_io_cleanup_states (pool.c:1049-1063): every connection of the node's
\* list is unscheduled, reset with -EUCLEAN, cleaned and released.
CleanupStates ==
    /\ HaltStep.op = "cleanup_states"
    /\ IF halt.states = {}
       THEN halt' = Advance(halt)
       ELSE \E c \in halt.states : halt' = [halt EXCEPT !.states = @ \ {c}]
    /\ UNCHANGED <<places, nio, asock, blocked, node, chk, wio, recvVars, sendVars, transVars, accVars>>

\* dnet_pop_request returns NULL after its timed wait and the worker finds
\* need_exit set (pool.c:1085-1088).
WorkerPopTimeout(p, i) ==
    /\ i \in DOMAIN wio[p]
    /\ wio[p][i] = "pop"
    /\ node.need_exit # "OK"
    /\ wio' = [wio EXCEPT ![p][i] = WorkerLoop(node.need_exit)]
    /\ UNCHANGED <<places, nio, asock, blocked, node, chk, halt, recvVars, sendVars, transVars, accVars>>

HaltNext ==
    \/ StopNeedExit \/ StopJoinNet \/ StopJoinAcceptor
    \/ StopPool \/ CleanupPool \/ CleanupStates

NextStop ==
    \/ \E c \in AdmConns : AdmPeerSend(c)
    \/ \E r \in NetThreads : NioLoopTop(r)
    \/ \E r \in NetThreads : NioEpollWait(r)
    \/ \E r \in NetThreads : NioEvent(r)
    \/ \E r \in NetThreads : NioRecv(r)
    \/ \E r \in NetThreads : NioBatchEnd(r)
    \/ \E r \in NetThreads : NioParkLock(r)
    \/ \E r \in NetThreads : NioParkCheck(r)
    \/ \E r \in NetThreads : NioParkWait(r)
    \/ \E r \in NetThreads : NioParkTimeout(r)
    \/ \E r \in NetThreads : NioParkWoken(r)
    \/ \E p \in Places : \E i \in WorkerIds : WorkerPop(p, i)
    \/ \E p \in Places : \E i \in WorkerIds : WorkerBroadcast(p, i)
    \/ \E p \in Places : \E i \in WorkerIds : WorkerDone(p, i)
    \/ \E p \in Places : \E i \in WorkerIds : WorkerPopTimeout(p, i)
    \/ AcceptorExit
    \/ StopNeedExit
    \/ StopJoinNet
    \/ StopJoinAcceptor
    \/ StopPool
    \/ CleanupPool
    \/ CleanupStates

SpecStop == InitStop /\ [][NextStop]_vars

WorkerStepStop(p, i) == WorkerStep(p, i) \/ WorkerPopTimeout(p, i)

\* Every thread is scheduled again, timed waits time out, a handler
\* invocation returns, and the thread that destroys the node runs on.
FairStop ==
    /\ \A r \in NetThreads : WF_vars(NioStep(r)) /\ SF_vars(NioLockStep(r))
    /\ \A p \in Places : \A i \in WorkerIds : WF_vars(WorkerStepStop(p, i))
    /\ WF_vars(AcceptorExit)
    /\ WF_vars(HaltNext)

\* The same shutdown on a node that has no backend enabled.
InitStopFair == InitStopOn(InitPlace)

SpecStopFair == InitStopFair /\ [][NextStop]_vars /\ FairStop

\* ------------------------------------------------------------------------
\* Claims on shutdown
\* ------------------------------------------------------------------------

Drained(p) == InitStopPlace[p] # NoPool /\ places[p] = NoPool

NetJoined == (\A r \in NetThreads : nio[r].pc = "joined") /\ halt.acceptor = "joined"

WorkersJoined(p) == \A i \in DOMAIN wio[p] : wio[p][i] = "joined"

Released(c) == c \notin halt.states

ThreadsLeft ==
    /\ \A r \in NetThreads : nio[r].pc \in {"exited", "joined"}
    /\ \A p \in Places : \A i \in DOMAIN wio[p] : wio[p][i] \in {"exited", "joined"}

StopReturned == HaltStep.fn # "dnet_io_stop"

\* C9: once the node's need_exit is set every reactor thread - in epoll_wait,
\* parked on the admission condition or inside a batch - and every worker
\* thread - waiting on an empty queue or between requests - leaves its loop,
\* and dnet_io_stop joins the reactors, the acceptor and the workers of the
\* global pools and returns.
C9_ShutdownTerminates ==
    (node.need_exit # "OK") ~> (ThreadsLeft /\ StopReturned)

\* need_exit is set while one reactor is in the admission wait with admission
\* denied, the other is inside a batch, and a worker runs a handler.
C9_Witness ==
    /\ node.need_exit # "OK"
    /\ dnet_check_io(places) = 0
    /\ \E r \in NetThreads : nio[r].pc = "parkwait"
    /\ \E r \in NetThreads : nio[r].pc \in {"loop", "recv"}
    /\ \E p \in Places : \E i \in DOMAIN wio[p] : wio[p][i] = "busy"

-----------------------------------------------------------------------------
\* Accepting clients: dnet_state_accept_process and the reactor around it

MaxClients == 2
MaxAccepts == 4

\* What accept(2) reports besides a new socket.
AcceptErrnos == {EAGAIN, ECONNABORTED, EMFILE, ENOBUFS, ENOMEM, EBADF}

\* accept(2) failures that take the waiting client out of the listen queue.
ClientGone == {EAGAIN, ECONNABORTED}

\* What getsockname(2) reports on the accepted socket.
LocalAddrResults == {"OK", EBADF, ENOBUFS}

\* What dnet_state_create reports for the accepted client.
CreateResults == {"OK", ENOMEM, EIO}

AcceptEnvs ==
    [accept : {"OK"} \cup AcceptErrnos, local : LocalAddrResults, create : CreateResults]

RecoverableAccept_NoENOMEM == {ECONNABORTED, EMFILE, ENOBUFS}

\* "Some error conditions considered recoverable and treated the same way as
\* EAGAIN".
RecoverableAccept == {ECONNABORTED, EMFILE, ENOBUFS, ENOMEM}

\* dnet_state_accept_process(orig, ev) under the results env of accept,
\* dnet_socket_local_addr and dnet_state_create.  exit says that the function
\* ended the process with exit(err); client says what became of the client:
\* "none" (no socket), "leaked" (socket neither closed nor owned), "closed"
\* (dnet_state_create closed it) or "accepted".
dnet_state_accept_process(env) ==
    IF env.accept # "OK"
    THEN IF env.accept = EAGAIN \/ env.accept = EWOULDBLOCK
         THEN [ret |-> env.accept, exit |-> FALSE, client |-> "none"]
         ELSE IF env.accept \in RecoverableAccept
         THEN [ret |-> EAGAIN, exit |-> FALSE, client |-> "none"]
         ELSE [ret |-> env.accept, exit |-> TRUE, client |-> "none"]
    ELSE IF env.local # "OK"
    THEN [ret |-> env.local, exit |-> FALSE, client |-> "leaked"]
    ELSE IF env.create # "OK"
    THEN [ret |-> EAGAIN, exit |-> FALSE, client |-> "closed"]
    ELSE [ret |-> "OK", exit |-> FALSE, client |-> "accepted"]

\* What a call did: its return value and the results that were actually
\* produced; a step that was not reached has result "none".
Reached(env, ret) ==
    [ret |-> ret,
     accept |-> env.accept,
     local |-> IF env.accept = "OK" THEN env.local ELSE "none",
     create |-> IF env.accept = "OK" /\ env.local = "OK" THEN env.create ELSE "none"]

\* The listening connection registered, no client waiting, nothing else running.
InitAccept ==
    /\ peer = [c \in Conns |-> [frames |-> <<>>, sent |-> 0, rd |-> 0, state |-> "open"]]
    /\ st = [c \in Conns |-> InitState]
    /\ net = [r \in Reactors |-> InitNet]
    /\ pools = [p \in Places |-> <<>>]
    /\ sched_log = [c \in Conns |-> <<>>]
    /\ IdleSend
    /\ IdleTrans
    /\ IdleAdm

\* A client connects to the listening socket.
ClientConnect ==
    /\ ~lst.exited
    /\ pending < MaxClients
    /\ pending' = pending + 1
    /\ UNCHANGED <<lst, evt, sio, rst, wp, ioi, lk, bat, recvVars, sendVars, transVars, admVars>>

\* dnet_unschedule_all on the listening connection: accept_s leaves the epoll
\* set.
dnet_unschedule_all(s) == [s EXCEPT !.registered = FALSE]

\* The reactor's loop body for an event of accept_s: it calls
\* dnet_state_accept_process and acts on the return value; an error other
\* than -EAGAIN resets the listening connection, unschedules it and drops a
\* reference.  Admission is not consulted for accept events.
AcceptEvent ==
    /\ ~lst.exited
    /\ lst.registered
    /\ lst.need_exit = "OK"
    /\ lst.calls < MaxAccepts
    /\ pending > 0
    /\ \E env \in AcceptEnvs :
          LET res == dnet_state_accept_process(env)
              took == env.accept = "OK" \/ env.accept \in ClientGone
              called == [lst EXCEPT !.calls = @ + 1,
                                    !.last = Reached(env, res.ret),
                                    !.client = res.client,
                                    !.accepted = IF res.client = "accepted" THEN @ + 1 ELSE @,
                                    !.failed = IF res.ret = EAGAIN THEN @ + 1 ELSE @]
              after == NetAfterHandler(called, res.ret)
          IN /\ lst' = IF res.exit THEN [called EXCEPT !.exited = TRUE]
                        ELSE IF res.ret \in {"OK", EAGAIN} THEN after
                        ELSE dnet_unschedule_all(after)
             /\ pending' = IF took THEN pending - 1 ELSE pending
    /\ UNCHANGED <<evt, sio, rst, wp, ioi, lk, bat, recvVars, sendVars, transVars, admVars>>

NextAccept ==
    \/ ClientConnect
    \/ AcceptEvent

SpecAccept == InitAccept /\ [][NextAccept]_vars

-----------------------------------------------------------------------------
\* Claims on accepting clients

\* The last call failed in one of the ways the node lives with: accept
\* reported EAGAIN/EWOULDBLOCK, ECONNABORTED, EMFILE, ENOBUFS or ENOMEM, or
\* the connection state of the accepted client could not be created.
RecoverableFailure(l) ==
    \/ l.accept \in {EAGAIN, EWOULDBLOCK, ECONNABORTED, EMFILE, ENOBUFS, ENOMEM}
    \/ l.accept = "OK" /\ l.local = "OK" /\ l.create \notin {"OK", "none"}

\* C10: a call of dnet_state_accept_process that fails recoverably returns
\* -EAGAIN, and the reactor leaves the listening connection as it was: not
\* reset, still registered for readiness, reference count unchanged, process
\* alive, so the next client can be accepted.
C10_RecoverableAcceptKeepsListener ==
    [][(lst'.calls # lst.calls /\ RecoverableFailure(lst'.last)) =>
          /\ lst'.last.ret = EAGAIN
          /\ lst'.need_exit = "OK"
          /\ lst'.registered
          /\ lst'.refcnt = lst.refcnt
          /\ ~lst'.exited]_vars

\* A client is accepted by a listening connection whose earlier calls returned
\* -EAGAIN twice.
C10_Witness ==
    /\ lst.failed >= 2
    /\ lst.accepted >= 1
    /\ lst.last.ret = "OK"
    /\ lst.need_exit = "OK"

\* The last call got a socket from accept and failed after that.
SetupFailure(l) == l.accept = "OK" /\ l.ret # "OK"

\* C39: a failure in setting up an accepted client after accept succeeded
\* (the local endpoint of the socket cannot be resolved, or the connection
\* cannot be created) affects only that client: its socket is closed, no
\* connection is added, and the listening connection is not reset and stays
\* registered for accept events.
C39_SetupFailureKeepsListener ==
    [][(lst'.calls # lst.calls /\ SetupFailure(lst'.last)) =>
          /\ lst'.client = "closed"
          /\ lst'.accepted = lst.accepted
          /\ lst'.need_exit = "OK"
          /\ lst'.registered
          /\ lst'.refcnt = lst.refcnt]_vars

\* The same for a failure of dnet_state_create alone.
CreateFailureKeepsListener ==
    [][(lst'.calls # lst.calls /\ SetupFailure(lst'.last) /\ lst'.last.local = "OK") =>
          /\ lst'.client = "closed"
          /\ lst'.accepted = lst.accepted
          /\ lst'.need_exit = "OK"
          /\ lst'.registered
          /\ lst'.refcnt = lst.refcnt]_vars

-----------------------------------------------------------------------------
\* SpecEpoll: epoll_wait failing in a reactor of a node under load

\* What a failing epoll_wait reports.
EpollErrnos == {EINTR, EAGAIN, EBADF}

EpollRetry_All == EpollErrnos

\* pool.c:958: after these the loop goes on.
EpollRetry == {EAGAIN, EINTR}

\* epoll_wait returns -1 (pool.c:955-964): with EAGAIN or EINTR the reactor
\* continues at the top of its loop; any other error is stored in the node's
\* need_exit and the reactor leaves the loop.
NioEpollFail(r) ==
    /\ nio[r].pc = "epoll"
    /\ \E e \in EpollErrnos :
          IF e \in EpollRetry
          THEN /\ nio' = [nio EXCEPT ![r].pc = "wait", ![r].err = e]
               /\ UNCHANGED node
          ELSE /\ nio' = [nio EXCEPT ![r].pc = "exited", ![r].err = e]
               /\ node' = [node EXCEPT !.need_exit = e]
    /\ UNCHANGED <<places, asock, blocked, chk, wio, recvVars, sendVars, transVars, halt, accVars>>

NextEpoll ==
    \/ NextAdm
    \/ \E r \in NetThreads : NioEpollFail(r)
    \/ \E p \in Places : \E i \in WorkerIds : WorkerPopTimeout(p, i)

\* Threads are scheduled fairly and timed waits time out; epoll_wait is not
\* required to fail.
FairEpoll ==
    /\ \A r \in NetThreads : WF_vars(NioStep(r)) /\ SF_vars(NioLockStep(r))
    /\ \A p \in Places : \A i \in WorkerIds : WF_vars(WorkerStepStop(p, i))

SpecEpoll == InitAdm /\ [][NextEpoll]_vars /\ FairEpoll

-----------------------------------------------------------------------------
\* Claims on epoll_wait failures

\* The reactor's epoll_wait has just failed in this step.
EpollFailed(r) == nio[r].pc = "epoll" /\ nio'[r].err # "OK"

\* C11: an epoll_wait failure with EINTR or EAGAIN leaves the node's
\* need_exit unchanged and the reactor goes back to the top of its loop; any
\* other failure stores the error in the node's need_exit and ends that
\* reactor, and from then on every reactor and every worker eventually leaves
\* its loop.
C11_EpollFailure ==
    /\ [][\A r \in NetThreads :
             EpollFailed(r) =>
                IF nio'[r].err \in {EINTR, EAGAIN}
                THEN node'.need_exit = node.need_exit /\ nio'[r].pc = "wait"
                ELSE node'.need_exit = nio'[r].err /\ nio'[r].pc = "exited"]_vars
    /\ (\E r \in NetThreads : nio[r].err \notin {"OK", EINTR, EAGAIN}) ~> ThreadsLeft

\* A reactor ended on a failed epoll_wait while the other reactor was parked on
\* the admission condition and a worker was inside a handler.
C11_Witness ==
    /\ \E r \in NetThreads : nio[r].pc = "exited" /\ nio[r].err = EBADF
    /\ \E r \in NetThreads : nio[r].pc = "parkwait"
    /\ \E p \in Places : \E i \in DOMAIN wio[p] : wio[p][i] = "busy"
    /\ node.need_exit = EBADF

\* C26: n->io->blocked tells whether reactors are parked: it is 1 in every
\* state in which some reactor is inside the wait on the admission condition,
\* and 0 in every state in which no reactor is inside the parking block.
C26_BlockedIffParked ==
    /\ (\E r \in NetThreads : nio[r].pc = "parkwait") => blocked = 1
    /\ (\A r \in NetThreads : nio[r].pc \notin {"parkcheck", "parkenter", "parkwait", "woken"})
          => blocked = 0

\* Steps of a worker and of a connection's send side.
Dequeued(p, i) == wio[p][i] = "got" /\ wio'[p][i] = "busy"

Completed(p, i) == wio[p][i] = "busy" /\ wio'[p][i] # "busy"

SendScheduled(c) == ~asock[c].out /\ asock'[c].out

SendCompleted(c) == asock[c].out /\ ~asock'[c].out

\* The step wakes every reactor inside pthread_cond_timedwait, or none.
FullWaitBroadcast == \A r \in NetThreads : nio[r].pc = "parkwait" => nio'[r].pc = "woken"

NoFullWaitBroadcast == \A r \in NetThreads : nio[r].pc = "parkwait" => nio'[r].pc = "parkwait"

\* C27 as stated: the admission condition is broadcast in the step in which
\* a worker completes a request and in the step in which a send completes.
C27_BroadcastOnCompletion ==
    [][/\ \A p \in Places : \A i \in DOMAIN wio[p] : Completed(p, i) => FullWaitBroadcast
       /\ \A c \in AdmConns : SendCompleted(c) => FullWaitBroadcast]_vars

\* C27, amended: the admission condition is broadcast by a worker right after
\* it has taken a request off its queue, before the handler runs, and by
\* dnet_schedule_send when a send is scheduled; the step in which a worker
\* completes a request and the step in which a send completes wake no
\* reactor. The queue size goes down only when a worker takes a request, and
\* that worker's next step is the broadcast.
C27_BroadcastOnDequeueAndSchedule ==
    [][/\ \A p \in Places : \A i \in DOMAIN wio[p] :
             /\ Dequeued(p, i) => FullWaitBroadcast
             /\ Completed(p, i) => NoFullWaitBroadcast
             /\ (wio[p][i] = "got" /\ wio'[p][i] # "got") => Dequeued(p, i)
       /\ \A c \in AdmConns :
             /\ SendScheduled(c) => FullWaitBroadcast
             /\ SendCompleted(c) => NoFullWaitBroadcast
       /\ (\E p \in Places : places[p] # NoPool /\ places'[p] # NoPool
                              /\ places'[p][1].queue_size < places[p][1].queue_size) =>
             \E p \in Places : \E i \in DOMAIN wio[p] : wio[p][i] = "pop" /\ wio'[p][i] = "got"]_vars

\* A worker that took a request has woken a parked reactor and is in the
\* handler; no send was scheduled.
C27_Witness ==
    /\ \E p \in Places : \E i \in DOMAIN wio[p] : wio[p][i] = "busy"
    /\ \E r \in NetThreads : nio[r].pc = "woken"
    /\ \A c \in AdmConns : ~asock[c].out
    /\ \A r \in NetThreads : nio[r].sends = 0
    /\ node.popped = 1

\* The positions of a reactor between its decision to park and its return to
\* the top of the loop.
ParkPcs == {"park", "parkcheck", "parkenter", "parkwait", "woken"}

\* C25: a reactor goes to park after a batch only if dnet_check_io denies
\* admission at that moment and no send event was serviced in the batch, and
\* it enters a wait only if, under full_lock, the node is not exiting and
\* admission is denied; every wait ends, by the one-second timeout at the
\* latest; and the reactor leaves the parked state only after a wakeup, or
\* when it finds the node exiting or admission granted.
C25_ParkOnlyWhenDenied ==
    /\ [][\A r \in NetThreads :
             /\ (nio[r].pc = "loop" /\ nio'[r].pc = "park") =>
                   /\ dnet_check_io(places) = 0
                   /\ nio[r].sends = 0
                   /\ nio[r].evs = {}
             /\ (nio[r].pc # "parkenter" /\ nio'[r].pc = "parkenter") =>
                   /\ node.need_exit = "OK"
                   /\ dnet_check_io(places) = 0
             /\ (nio[r].pc \in ParkPcs /\ nio'[r].pc \notin ParkPcs) =>
                   \/ nio[r].pc = "woken"
                   \/ node.need_exit # "OK"
                   \/ dnet_check_io(places) = 1]_vars
    /\ \A r \in NetThreads : (nio[r].pc = "parkwait") ~> (nio[r].pc # "parkwait")

\* One reactor waits on the admission condition while the other, in a batch
\* in which it serviced a send event, is at the end of the batch with
\* admission denied.
C25_Witness ==
    /\ dnet_check_io(places) = 0
    /\ node.need_exit = "OK"
    /\ \E r \in NetThreads : nio[r].pc = "parkwait"
    /\ \E r \in NetThreads : nio[r].pc = "loop" /\ nio[r].evs = {} /\ nio[r].sends = 1

-----------------------------------------------------------------------------
\* SpecEvent: the reactor's loop body for one event of a connection

MaxEvtCells == 2
MaxEvtFrames == 1

EPOLLHUP == "EPOLLHUP"

\* The event masks epoll_wait reports for a connection's sockets.
EventMasks == SUBSET {EPOLLIN, EPOLLOUT, EPOLLHUP} \ {{}}

\* The node's pools with the queues at the admission threshold, and one
\* request above it.
EvtPlaces ==
    {[InitPlace EXCEPT ![AdmPlace][1].queue_size = Backlog(InitPlace) + d] : d \in {1, 2}}

\* dnet_process_recv_single as the loop body sees it: it takes k of the
\* waiting cells and returns e, -EAGAIN or an error.
EvtRecv(conn, k, e) == [conn |-> [conn EXCEPT !.rd = @ - k, !.off = @ + k], ret |-> e]

\* dnet_process_send_single as the loop body sees it: it writes k of the
\* queued frames and returns e: 0, -EAGAIN or an error.
EvtSend(conn, k, e) == [conn |-> [conn EXCEPT !.out = @ - k], ret |-> e]

\* dnet_state_net_process(st, ev) (pool.c:833-855) with the handlers' outcomes
\* rin = <<k, e>> and sout = <<k, e>>.
dnet_state_net_process(conn, mask, rin, sout) ==
    LET r == IF EPOLLIN \in mask THEN EvtRecv(conn, rin[1], rin[2])
             ELSE [conn |-> conn, ret |-> ECONNRESET]
        stop1 == EPOLLIN \in mask /\ r.ret \notin {"OK", EAGAIN}
        w == IF ~stop1 /\ EPOLLOUT \in mask THEN EvtSend(r.conn, sout[1], sout[2]) ELSE r
        stop2 == ~stop1 /\ EPOLLOUT \in mask /\ w.ret \notin {"OK", EAGAIN}
    IN  [conn |-> w.conn,
         recv |-> EPOLLIN \in mask,
         send |-> ~stop1 /\ EPOLLOUT \in mask,
         ret |-> IF ~stop1 /\ ~stop2 /\ EPOLLHUP \in mask THEN ECONNRESET ELSE w.ret]

EventServiced_Always(mask, admitted) == TRUE

\* pool.c:980: (evs[i].events & EPOLLOUT) || dnet_check_io(n->io); admitted is
\* the result of dnet_check_io, which is not called for a send event.
EventServiced(mask, admitted) == EPOLLOUT \in mask \/ admitted = 1

\* The loop body for an event whose fd is not accept_s (pool.c:976-1016).
NioHandleEvent(e, mask, pls, rin, sout) ==
    LET check == IF EPOLLOUT \in mask THEN "none" ELSE dnet_check_io(pls)
        admitted == IF EPOLLOUT \in mask THEN 0 ELSE dnet_check_io(pls)
    IN  IF EventServiced(mask, admitted)
        THEN LET res == dnet_state_net_process(e.conn, mask, rin, sout)
             IN  [conn |-> NetAfterHandler(res.conn, res.ret), before |-> e.conn,
                  mask |-> mask, check |-> check, recv |-> res.recv, send |-> res.send,
                  err |-> res.ret, tmp |-> 1]
        ELSE [conn |-> e.conn, before |-> e.conn, mask |-> mask, check |-> check,
              recv |-> FALSE, send |-> FALSE, err |-> "none", tmp |-> 0]

\* Between two events: the record of the last event is dropped.
EvtIdle(conn) == [InitEvt EXCEPT !.conn = conn, !.before = conn]

\* The peer's cells arrive in the read socket.
EvtPeerSend ==
    /\ evt.conn.rd + evt.conn.off < MaxEvtCells
    /\ evt' = EvtIdle([evt.conn EXCEPT !.rd = @ + 1])
    /\ UNCHANGED <<lst, pending, sio, rst, wp, ioi, lk, bat, recvVars, sendVars, transVars, admVars>>

\* A frame is queued on the connection's send list.
EvtEnqueue ==
    /\ evt.conn.out < MaxEvtFrames
    /\ evt' = EvtIdle([evt.conn EXCEPT !.out = @ + 1])
    /\ UNCHANGED <<lst, pending, sio, rst, wp, ioi, lk, bat, recvVars, sendVars, transVars, admVars>>

\* epoll_wait reports an event of the connection and the loop body runs.
EvtHandle ==
    /\ evt.conn.need_exit = "OK"
    /\ \E mask \in EventMasks, pls \in EvtPlaces :
       \E rk \in 0..evt.conn.rd, re \in {EAGAIN, ECONNRESET},
          sk \in 0..evt.conn.out, se \in {"OK", EAGAIN, ECONNRESET} :
          evt' = NioHandleEvent(evt, mask, pls, <<rk, re>>, <<sk, se>>)
    /\ UNCHANGED <<lst, pending, sio, rst, wp, ioi, lk, bat, recvVars, sendVars, transVars, admVars>>

NextEvent ==
    \/ EvtPeerSend
    \/ EvtEnqueue
    \/ EvtHandle

SpecEvent == InitAccept /\ [][NextEvent]_vars

-----------------------------------------------------------------------------
\* Claims on the reactor's loop body

\* C13: an event with only the write bit is always serviced by the send
\* handler; for an event without the write bit the receive handler is invoked
\* only when dnet_check_io returned 1 for it; an event without the write bit
\* for which dnet_check_io returned 0 is skipped: no handler runs, no cell is
\* read, the connection's state is as before and it is not reset.
C13_EventGate ==
    /\ (EPOLLOUT \in evt.mask /\ EPOLLIN \notin evt.mask) => evt.send
    /\ (EPOLLOUT \notin evt.mask /\ evt.recv) => evt.check = 1
    /\ (evt.mask # {} /\ EPOLLOUT \notin evt.mask /\ evt.check = 0) =>
          /\ ~evt.recv /\ ~evt.send
          /\ evt.conn = evt.before
          /\ evt.conn.need_exit = "OK"
          /\ evt.tmp = 0

\* A receive event that also reports a hangup is skipped while admission is
\* denied, with cells waiting in the socket.
C13_Witness ==
    /\ evt.mask = {EPOLLIN, EPOLLHUP}
    /\ evt.check = 0
    /\ evt.conn.rd > 0
    /\ ~evt.recv

\* ------------------------------------------------------------------------
\* SpecDispatch: dnet_schedule_io called by two threads
\* ------------------------------------------------------------------------

\* Calls of dnet_schedule_io in one run.
MaxDispatch == 2

\* enum dnet_io_req_type: a request of the old mechanic, or one of the
\* protocol-independent mechanic.
IoReqTypes == {"OLD_PROTOCOL", "N2_PROTOCOL"}

\* The headers of the requests passed to dnet_schedule_io: a backend-less and
\* a backend opcode, a routed and an unrouted key, every combination of
\* DIRECT_BACKEND, NOLOCK and REPLY, and with DIRECT_BACKEND a backend id
\* that names the backend, none (-1) or is another negative value.
DispatchCmds ==
    {h \in [id : {"k0", "k1"}, cmd : {"AUTH", "READ"},
            flags : SUBSET {DNET_FLAGS_DIRECT_BACKEND, DNET_FLAGS_NOLOCK, DNET_FLAGS_REPLY},
            trans : {1}, size : {0}, backend_id : {-2, -1, 0, 1}] :
        (DNET_FLAGS_DIRECT_BACKEND \in h.flags) <=> (h.backend_id # 0)}

\* dnet_io_req_set_request_backend_id (pool.c:290): the old mechanic writes
\* the header and returns 0; the protocol-independent one may fail.
SetBackendResults(type) ==
    IF type = "OLD_PROTOCOL" THEN {"OK"} ELSE {"OK", EINVAL}

InitDispatch ==
    /\ peer = [c \in Conns |-> [frames |-> <<>>, sent |-> 0, rd |-> 0, state |-> "open"]]
    /\ st = [c \in Conns |-> InitState]
    /\ net = [r \in Reactors |-> InitNet]
    /\ pools = [p \in Places |-> <<>>]
    /\ sched_log = [c \in Conns |-> <<>>]
    /\ IdleSend
    /\ IdleTrans
    /\ IdleAdm

\* pool.c:328-368: the thread enters dnet_schedule_io with a request and
\* resolves its backend id.
SioEnter(t) ==
    /\ sio.thr[t].pc = "idle"
    /\ sio.calls < MaxDispatch
    /\ \E cmd \in DispatchCmds, type \in IoReqTypes :
          sio' = [sio EXCEPT !.calls = @ + 1,
                             !.refs = @ + 1,
                             !.thr[t] = [pc |-> "place",
                                         r |-> RequestOf(TransConn, cmd),
                                         cmd |-> cmd,
                                         type |-> type,
                                         backend_id |-> ResolveBackend(cmd),
                                         place |-> <<-1, 0>>]]
    /\ UNCHANGED <<lst, pending, evt, rst, wp, ioi, lk, bat, recvVars, sendVars, transVars, admVars>>

\* pool.c:370: dnet_backend_get_place returns the place with its lock held.
SioGetPlace(t) ==
    /\ sio.thr[t].pc = "place"
    /\ LET cmd == sio.thr[t].cmd
           nonblocking == IF DNET_FLAGS_NOLOCK \in cmd.flags THEN 1 ELSE 0
           place == dnet_backend_get_place(sio.thr[t].backend_id, nonblocking)
       IN  /\ sio.lock[place] = NULL
           /\ sio' = [sio EXCEPT !.lock[place] = t,
                                  !.thr[t].place = place,
                                  !.thr[t].pc = "stamp"]
    /\ UNCHANGED <<lst, pending, evt, rst, wp, ioi, lk, bat, recvVars, sendVars, transVars, admVars>>

\* pool.c:377-388: the header of a frame that is not a reply is stamped with
\* the resolved backend id; if that fails the place lock is released and the
\* function returns.
SioStamp(t) ==
    /\ sio.thr[t].pc = "stamp"
    /\ LET cmd == sio.thr[t].cmd
           backend_id == sio.thr[t].backend_id
       IN  IF DNET_FLAGS_REPLY \in cmd.flags
           THEN sio' = [sio EXCEPT !.thr[t].pc = "push"]
           ELSE \E err \in SetBackendResults(sio.thr[t].type) :
                   IF err # "OK"
                   THEN sio' = [sio EXCEPT !.lock[sio.thr[t].place] = NULL,
                                           !.thr[t] = SioIdle]
                   ELSE sio' = [sio EXCEPT
                                  !.thr[t].r.header[1] =
                                      Host(RouteOf(StampBackend(cmd, backend_id))),
                                  !.thr[t].pc = "push"]
    /\ UNCHANGED <<lst, pending, evt, rst, wp, ioi, lk, bat, recvVars, sendVars, transVars, admVars>>

\* pool.c:394: dnet_push_request into the pool of the place.
SioPush(t) ==
    /\ sio.thr[t].pc = "push"
    /\ pools' = [pools EXCEPT ![sio.thr[t].place] = dnet_push_request(@, sio.thr[t].r)]
    /\ sio' = [sio EXCEPT !.thr[t].pc = "unlock"]
    /\ UNCHANGED <<peer, st, net, sched_log, lst, pending, evt, rst, wp, ioi, lk, bat, sendVars, transVars, admVars>>

\* pool.c:396: the place lock is released and the function returns.
SioUnlock(t) ==
    /\ sio.thr[t].pc = "unlock"
    /\ sio' = [sio EXCEPT !.lock[sio.thr[t].place] = NULL,
                           !.thr[t] = SioIdle]
    /\ UNCHANGED <<lst, pending, evt, rst, wp, ioi, lk, bat, recvVars, sendVars, transVars, admVars>>

NextDispatch ==
    \E t \in NetThreads :
        \/ SioEnter(t)
        \/ SioGetPlace(t)
        \/ SioStamp(t)
        \/ SioPush(t)
        \/ SioUnlock(t)

SpecDispatch == InitDispatch /\ [][NextDispatch]_vars

\* ------------------------------------------------------------------------
\* Claims on the dispatcher
\* ------------------------------------------------------------------------

\* The backend id the routing rule gives a header.
RoutedBackend(cmd) ==
    IF DNET_FLAGS_DIRECT_BACKEND \in cmd.flags THEN cmd.backend_id
    ELSE IF cmd.cmd \in {"AUTH", "STATUS", "REVERSE_LOOKUP", "JOIN", "ROUTE_LIST",
                         "MONITOR_STAT", "BACKEND_CONTROL", "BACKEND_STATUS",
                         "BULK_READ_NEW", "BULK_REMOVE_NEW"} THEN -1
    ELSE dnet_state_search_backend(cmd.id)

\* The place of that backend id and the header's class; -1, as every id that
\* names no backend, is the global one.
RoutedPlace(cmd) ==
    <<IF RoutedBackend(cmd) \in Backends THEN RoutedBackend(cmd) ELSE -1,
      IF DNET_FLAGS_NOLOCK \in cmd.flags THEN 1 ELSE 0>>

\* The step is thread t pushing its request, or leaving dnet_schedule_io.
Pushes(t) == sio.thr[t].pc = "push" /\ sio'.thr[t].pc = "unlock"

Returns(t) == sio.thr[t].pc # "idle" /\ sio'.thr[t].pc = "idle"

\* A thread past dnet_backend_get_place has resolved the backend id by the
\* routing rule and holds the lock of the routed place and no other; a thread
\* before it holds none.
RoutedAndLocked ==
    \A t \in NetThreads :
        IF sio.thr[t].pc \in {"stamp", "push", "unlock"}
        THEN /\ sio.thr[t].backend_id = RoutedBackend(sio.thr[t].cmd)
             /\ sio.thr[t].place = RoutedPlace(sio.thr[t].cmd)
             /\ \A p \in Places : sio.lock[p] = t <=> p = sio.thr[t].place
        ELSE \A p \in Places : sio.lock[p] # t

\* A push puts the thread's request at the tail of the routed place's queue
\* and of no other, with the place lock held before and after the step; the
\* queues change in no other step.
PushesOnceLocked ==
    /\ pools' # pools => \E t \in NetThreads : Pushes(t)
    /\ \A t \in NetThreads : Pushes(t) =>
          LET place == RoutedPlace(sio.thr[t].cmd)
          IN  /\ QueuedAt(place)
              /\ pools'[place][Len(pools'[place])] = sio.thr[t].r
              /\ \A q \in Places \ {place} : pools'[q] = pools[q]
              /\ sio.lock[place] = t
              /\ sio'.lock[place] = t

\* C20 as stated: the backend id is resolved by the routing rule, every call
\* of dnet_schedule_io pushes its request into exactly one pool, that of the
\* routed place, with the place lock held during the push, and the lock is
\* released when the call returns.
C20_DispatchRouting ==
    /\ []RoutedAndLocked
    /\ [][/\ PushesOnceLocked
           /\ \A t \in NetThreads : Returns(t) =>
                 /\ sio.thr[t].pc = "unlock"
                 /\ \A p \in Places : sio'.lock[p] # t]_vars

\* C20, amended: as stated, except that a call returns without a push, the
\* place lock released, when dnet_io_req_set_request_backend_id fails, which
\* only a request that is not a reply and not of the old mechanic can cause.
C20_DispatchRoutingUnlessStampFails ==
    /\ []RoutedAndLocked
    /\ [][/\ PushesOnceLocked
           /\ \A t \in NetThreads : Returns(t) =>
                 /\ \/ sio.thr[t].pc = "unlock"
                    \/ /\ sio.thr[t].pc = "stamp"
                       /\ sio.thr[t].type # "OLD_PROTOCOL"
                       /\ DNET_FLAGS_REPLY \notin sio.thr[t].cmd.flags
                       /\ pools' = pools
                 /\ \A p \in Places : sio'.lock[p] # t]_vars

\* A thread has pushed a backend-less request with DIRECT_BACKEND into the
\* non-blocking pool of backend 1 and still holds the place lock, while the
\* other thread waits for that lock with a request routed there by its key.
C20_Witness ==
    /\ sio.thr["net1"].pc = "unlock"
    /\ sio.thr["net1"].cmd.cmd = "AUTH"
    /\ sio.thr["net1"].cmd.flags = {DNET_FLAGS_DIRECT_BACKEND, DNET_FLAGS_NOLOCK}
    /\ sio.thr["net1"].cmd.backend_id = 1
    /\ sio.lock[<<1, 1>>] = "net1"
    /\ pools[<<1, 1>>] = <<sio.thr["net1"].r>>
    /\ sio.thr["net2"].pc = "place"
    /\ sio.thr["net2"].cmd.cmd = "READ"
    /\ sio.thr["net2"].cmd.id = "k1"
    /\ sio.thr["net2"].cmd.flags = {DNET_FLAGS_NOLOCK}

\* The header of the request the step put at the tail of the queue of p.
PushedCmd(p) == CmdOf(pools'[p][Len(pools'[p])].header)

\* C21: the header of a frame without REPLY carries, once dispatched, the
\* resolved backend id, or -1 when the resolved id is negative; the header of
\* a frame with REPLY is dispatched with the backend id it came with. No other
\* field of the header changes.
C21_BackendStamp ==
    [][\A t \in NetThreads : Pushes(t) =>
          LET cmd == sio.thr[t].cmd
              resolved == RoutedBackend(cmd)
          IN  PushedCmd(sio.thr[t].place) =
                  IF DNET_FLAGS_REPLY \in cmd.flags THEN cmd
                  ELSE [cmd EXCEPT !.backend_id = IF resolved < 0 THEN -1 ELSE resolved]]_vars

\* Queued: a request that came with DIRECT_BACKEND and the backend id -2,
\* stamped -1, and a reply that came with the backend id 1 and kept it while
\* its key is routed nowhere.
C21_Witness ==
    /\ \E p \in Places : \E i \in 1..Len(pools[p]) :
          LET cmd == CmdOf(pools[p][i].header)
          IN  /\ DNET_FLAGS_REPLY \notin cmd.flags
              /\ cmd.backend_id = -1
              /\ sio.thr["net1"].pc = "unlock"
              /\ sio.thr["net1"].r = pools[p][i]
              /\ sio.thr["net1"].cmd.backend_id = -2
    /\ \E p \in Places : \E i \in 1..Len(pools[p]) :
          LET cmd == CmdOf(pools[p][i].header)
          IN  /\ DNET_FLAGS_REPLY \in cmd.flags
              /\ cmd.backend_id = 1
              /\ cmd.id = "k0"

\* ------------------------------------------------------------------------
\* SpecReset: the reactor resetting a connection whose handler failed
\* ------------------------------------------------------------------------

\* Events of the connection the reactor handles, and references that workers
\* hold on it at a time.
MaxRstEvents == 3
MaxHeld == 2

\* What dnet_state_accept_process or dnet_state_net_process returns.
HandlerResults == {"OK", EAGAIN, ECONNRESET, ENOMEM}

\* A reactor that removes the registrations before it marks the connection.
ResetSteps_UnscheduleFirst ==
    <<"dnet_unschedule_all", "dnet_state_reset", "dnet_add_reconnect_state", "dnet_state_put">>

\* pool.c:1001-1014: the calls the reactor makes on a connection whose handler
\* failed, in program order.
ResetSteps ==
    <<"dnet_state_reset", "dnet_unschedule_all", "dnet_add_reconnect_state", "dnet_state_put">>

\* The effect of each of those calls: dnet_state_reset marks the connection
\* with the error; dnet_unschedule_all (pool.c:690) removes every socket of the
\* connection from the epoll set; dnet_add_reconnect_state records the address
\* with st->__join_state; dnet_state_put drops one reference.
RstApply(step, r) ==
    CASE step = "dnet_state_reset" ->
            [r EXCEPT !.st.need_exit = IF @ = "OK" THEN r.err ELSE @]
      [] step = "dnet_unschedule_all" ->
            [r EXCEPT !.st.registered = {}]
      [] step = "dnet_add_reconnect_state" ->
            [r EXCEPT !.reconnect = @ \cup {[addr |-> "addr", join_state |-> r.st.join_state]}]
      [] step = "dnet_state_put" ->
            [r EXCEPT !.st.refcnt = @ - 1]

InitReset ==
    /\ peer = [c \in Conns |-> [frames |-> <<>>, sent |-> 0, rd |-> 0, state |-> "open"]]
    /\ st = [c \in Conns |-> InitState]
    /\ net = [r \in Reactors |-> InitNet]
    /\ pools = [p \in Places |-> <<>>]
    /\ sched_log = [c \in Conns |-> <<>>]
    /\ IdleSend
    /\ IdleTrans
    /\ lst = InitLst
    /\ pending = 0
    /\ evt = InitEvt
    /\ sio = InitSio
    /\ \E join_state \in {0, 1} : rst = InitRst(join_state)
    /\ wp = InitWp
    /\ ioi = InitIoi(TRUE)
    /\ lk = InitLk
    /\ bat = InitBat
    /\ halt = InitHalt
    /\ places = InitPlace
    /\ wio = InitWio(InitPlace)
    /\ nio = [r \in NetThreads |-> InitNio]
    /\ asock = [c \in AdmConns |-> [rd |-> 0, out |-> FALSE]]
    /\ blocked = 0
    /\ node = InitNode
    /\ chk = InitChk

\* pool.c:976-983: epoll_wait reports an event of the connection and its
\* handler returns; a send handler that found the send list empty has removed
\* write readiness.
RstHandler ==
    /\ rst.pc = "wait"
    /\ rst.st.registered # {}
    /\ rst.events < MaxRstEvents
    /\ \E err \in HandlerResults, unsched \in BOOLEAN :
          /\ unsched => err = EAGAIN /\ "write_s" \in rst.st.registered
          /\ rst' = [rst EXCEPT !.pc = "ret", !.err = err, !.events = @ + 1,
                                 !.st.registered = IF unsched THEN @ \ {"write_s"} ELSE @]
    /\ UNCHANGED <<lst, pending, evt, sio, wp, ioi, lk, bat, recvVars, sendVars, transVars, admVars>>

\* pool.c:985-988: 0 and -EAGAIN go on with the next event, another negative
\* result enters the reset of the connection.
RstResult ==
    /\ rst.pc = "ret"
    /\ rst' = [rst EXCEPT !.pc = IF rst.err \in {"OK", EAGAIN} THEN "wait" ELSE "reset"]
    /\ UNCHANGED <<lst, pending, evt, sio, wp, ioi, lk, bat, recvVars, sendVars, transVars, admVars>>

\* pool.c:1001-1015: the next call of the reset; after the last one the
\* reactor breaks out of the batch.
RstStep ==
    /\ rst.pc = "reset"
    /\ LET step == ResetSteps[Len(rst.done) + 1]
           r == RstApply(step, rst)
       IN  rst' = [r EXCEPT !.done = Append(@, step),
                            !.pc = IF Len(rst.done) + 1 = Len(ResetSteps) THEN "wait" ELSE "reset"]
    /\ UNCHANGED <<lst, pending, evt, sio, wp, ioi, lk, bat, recvVars, sendVars, transVars, admVars>>

\* A producer queues a frame and calls dnet_schedule_send under the send
\* lock (pool.c:767-826): nothing is registered on a connection marked for
\* reset.
RstScheduleSend ==
    /\ "write_s" \notin rst.st.registered
    /\ rst.st.need_exit = "OK"
    /\ rst' = [rst EXCEPT !.st.registered = @ \cup {"write_s"}]
    /\ UNCHANGED <<lst, pending, evt, sio, wp, ioi, lk, bat, recvVars, sendVars, transVars, admVars>>

\* A request of the connection is queued with a reference to it
\* (dnet_state_get), and a worker that has handled a request drops its
\* reference (dnet_state_put).
RstGet ==
    /\ rst.held < MaxHeld
    /\ rst.st.refcnt > 0
    /\ rst' = [rst EXCEPT !.held = @ + 1, !.st.refcnt = @ + 1]
    /\ UNCHANGED <<lst, pending, evt, sio, wp, ioi, lk, bat, recvVars, sendVars, transVars, admVars>>

RstPut ==
    /\ rst.held > 0
    /\ rst' = [rst EXCEPT !.held = @ - 1, !.st.refcnt = @ - 1]
    /\ UNCHANGED <<lst, pending, evt, sio, wp, ioi, lk, bat, recvVars, sendVars, transVars, admVars>>

NextReset ==
    \/ RstHandler
    \/ RstResult
    \/ RstStep
    \/ RstScheduleSend
    \/ RstGet
    \/ RstPut

SpecReset == InitReset /\ [][NextReset]_vars

\* ------------------------------------------------------------------------
\* Claims on the reset of a connection
\* ------------------------------------------------------------------------

\* C24: a handler result that is a negative error other than -EAGAIN makes
\* the reactor reset the connection with that error, then remove all of its
\* readiness registrations under the send lock, then record its address with
\* its joined-peer flag in the reconnect set, then drop exactly one reference,
\* in that order, and nothing registers the connection again afterwards; a
\* result of 0 or -EAGAIN starts none of these steps and leaves the
\* connection and the reconnect set as they are.
C24_ResetSequence ==
    /\ [](/\ \E k \in 0..4 :
                 rst.done = SubSeq(<<"dnet_state_reset", "dnet_unschedule_all",
                                     "dnet_add_reconnect_state", "dnet_state_put">>, 1, k)
          /\ rst.done # <<>> =>
                 rst.err \notin {"OK", EAGAIN} /\ rst.st.need_exit = rst.err
          /\ rst.done = <<>> => rst.st.need_exit = "OK" /\ rst.reconnect = {}
          /\ Len(rst.done) >= 2 => rst.st.registered = {}
          /\ Len(rst.done) >= 3 =>
                 rst.reconnect = {[addr |-> "addr", join_state |-> rst.st.join_state]}
          /\ rst.st.refcnt = 1 + rst.held - (IF Len(rst.done) = 4 THEN 1 ELSE 0)
          /\ rst.pc = "wait" => Len(rst.done) \in {0, 4}
          /\ Len(rst.done) \in 1..3 => rst.pc = "reset")
    /\ [][(rst.pc = "ret" /\ rst'.pc # "ret") =>
             IF rst.err \in {"OK", EAGAIN}
             THEN /\ rst'.pc = "wait"
                  /\ rst'.st = rst.st
                  /\ rst'.reconnect = rst.reconnect
                  /\ rst'.done = <<>>
             ELSE rst'.pc = "reset"]_vars

\* The reactor has reset a joined peer after an earlier event of it returned
\* -EAGAIN: nothing is registered, the address is recorded, and the only
\* references left are those of two requests still with the workers.
C24_Witness ==
    /\ rst.pc = "wait"
    /\ rst.done = ResetSteps
    /\ rst.events >= 2
    /\ rst.st.need_exit = ECONNRESET
    /\ rst.st.join_state = 1
    /\ rst.st.registered = {}
    /\ rst.held = 2
    /\ rst.st.refcnt = 2

\* ------------------------------------------------------------------------
\* SpecPool: one work pool, its worker threads, stop and grow
\* ------------------------------------------------------------------------

\* Workers a call of dnet_work_pool_grow adds, and calls of
\* dnet_work_pool_stop on the place.
MaxGrow == 2

MaxStops == 2

OtherVarsPool == <<lst, pending, evt, sio, rst, ioi, lk, bat, recvVars, sendVars, transVars, admVars>>

InitPool ==
    /\ peer = [c \in Conns |-> [frames |-> <<>>, sent |-> 0, rd |-> 0, state |-> "open"]]
    /\ st = [c \in Conns |-> InitState]
    /\ net = [r \in Reactors |-> InitNet]
    /\ pools = [p \in Places |-> <<>>]
    /\ sched_log = [c \in Conns |-> <<>>]
    /\ IdleSend
    /\ IdleTrans
    /\ IdleAdm

\* The tid pthread_create returns: a thread that does not exist yet.
NewTid(w) == CHOOSE t \in Tids : w.thr[t].pc = "none" /\ \A u \in Tids : w.thr[u].pc = "none" => t <= u

Created(w) == {t \in Tids : w.thr[t].pc # "none"}

Recorded(w) == {w.wio_list[i].tid : i \in 1..Len(w.wio_list)}

\* pool.c:149: pool->num = num.
GrownNum(num, n) == n

\* dnet_work_pool_alloc (pool.c:187-223): with place->lock held the pool is
\* allocated zeroed, num = 0, and dnet_work_pool_grow is called for n workers.
PoolAlloc(n) ==
    /\ wp.pool = "none"
    /\ wp.ret = "none"
    /\ wp.place_lock = "free"
    /\ wp' = [wp EXCEPT !.pool = "alloc", !.place_lock = "alloc", !.num = 0,
                        !.pool_need_exit = 0,
                        !.grow = [@ EXCEPT !.pc = "lock", !.n = n]]
    /\ UNCHANGED OtherVarsPool

\* dnet_work_pool_grow (pool.c:120-126): pool->lock is taken and wio_list is
\* set to a new array of num entries.
GrowLock ==
    /\ wp.grow.pc = "lock"
    /\ wp.pool_lock = "free"
    /\ wp' = [wp EXCEPT !.pool_lock = "grow", !.wio_list = <<>>,
                        !.grow = [@ EXCEPT !.pc = "create", !.i = 0, !.k = wp.num,
                                           !.old = Recorded(wp)]]
    /\ UNCHANGED OtherVarsPool

\* pool.c:128-144: entry i is initialised, joined = 0, and its thread is
\* created; the thread enters dnet_io_process.
GrowCreate ==
    /\ wp.grow.pc = "create"
    /\ wp.grow.i < wp.grow.n
    /\ wp' = [wp EXCEPT !.wio_list = Append(@, [tid |-> NewTid(wp), joined |-> 0]),
                        !.thr[NewTid(wp)] = [pc |-> "test", r |-> 0],
                        !.grow.i = @ + 1]
    /\ UNCHANGED OtherVarsPool

\* pool.c:146-152, 227: the count is stored, pool->lock released, and the
\* caller releases place->lock.
GrowDone ==
    /\ wp.grow.pc = "create"
    /\ wp.grow.i = wp.grow.n
    /\ wp' = [wp EXCEPT !.num = GrownNum(wp.num, wp.grow.n),
                        !.pool_lock = "free", !.place_lock = "free",
                        !.grow = [@ EXCEPT !.pc = "idle", !.calls = @ + 1],
                        !.ret = "OK"]
    /\ UNCHANGED OtherVarsPool

\* dnet_process_recv_single (pool.c:541-545): a reference to the connection
\* is taken for the request and dnet_schedule_io pushes it to the pool.
PoolPush ==
    /\ wp.pool = "alloc"
    /\ wp.pushed < MaxReqs
    /\ wp' = [wp EXCEPT !.pushed = @ + 1, !.queue = Append(@, wp.pushed + 1),
                        !.refcnt = @ + 1]
    /\ UNCHANGED OtherVarsPool

\* dnet_set_need_exit; late marks the requests a worker holds at that time.
PoolSetNeedExit ==
    /\ wp.need_exit = 0
    /\ wp' = [wp EXCEPT !.need_exit = 1,
                        !.req = [q \in ReqIds |->
                                    IF \E t \in Tids : wp.thr[t].r = q
                                    THEN [@[q] EXCEPT !.late = TRUE] ELSE @[q]]]
    /\ UNCHANGED OtherVarsPool

\* The condition of the worker's loop (pool.c:1085).
WioRuns(w) == w.need_exit = 0 /\ w.pool_need_exit = 0

\* pool.c:1085: the loop condition is evaluated.
WioTest(t) ==
    /\ wp.thr[t].pc = "test"
    /\ wp' = [wp EXCEPT !.thr[t].pc = IF WioRuns(wp) THEN "pop" ELSE "exited"]
    /\ UNCHANGED OtherVarsPool

\* pool.c:1086-1088: dnet_pop_request takes the first request off the queue,
\* or returns NULL after its wait and the loop starts over.
WioPop(t) ==
    /\ wp.thr[t].pc = "pop"
    /\ IF wp.queue # <<>>
       THEN wp' = [wp EXCEPT !.queue = Tail(@), !.thr[t] = [pc |-> "got", r |-> Head(wp.queue)]]
       ELSE wp' = [wp EXCEPT !.thr[t].pc = "test"]
    /\ UNCHANGED OtherVarsPool

\* pool.c:1090: full_wait is broadcast.
WioBroadcast(t) ==
    /\ wp.thr[t].pc = "got"
    /\ wp' = [wp EXCEPT !.thr[t].pc = "handle"]
    /\ nio' = BroadcastFullWait(nio)
    /\ UNCHANGED <<lst, pending, evt, sio, rst, ioi, lk, bat, recvVars, sendVars, transVars,
                   places, asock, blocked, node, chk, wio, halt>>

\* pool.c:1105: dnet_process_recv(st, r).
WioHandle(t) ==
    /\ wp.thr[t].pc = "handle"
    /\ wp' = [wp EXCEPT !.thr[t].pc = "release",
                        !.req[wp.thr[t].r] = [@ EXCEPT !.handled = @ + 1, !.by = @ \cup {t}]]
    /\ UNCHANGED OtherVarsPool

\* The request is released and freed, the reference kept.
ReleaseRequest_NoPut(rq) == [rq EXCEPT !.released = @ + 1, !.freed = @ + 1]

\* pool.c:1110-1112: dnet_release_request, dnet_io_req_free, dnet_state_put.
ReleaseRequest(rq) == [rq EXCEPT !.released = @ + 1, !.freed = @ + 1, !.puts = @ + 1]

\* pool.c:1107-1118: after the handler the request is released and freed and
\* the reference dropped; the loop starts over.
WioFinish(t) ==
    /\ wp.thr[t].pc = "release"
    /\ LET rq == ReleaseRequest(wp.req[wp.thr[t].r])
       IN  wp' = [wp EXCEPT !.thr[t] = [pc |-> "test", r |-> 0],
                            !.req[wp.thr[t].r] = rq,
                            !.refcnt = @ - (rq.puts - wp.req[wp.thr[t].r].puts)]
    /\ UNCHANGED OtherVarsPool

\* dnet_work_pool_stop (pool.c:58-62): place->lock is taken.
PoolStopEnter ==
    /\ wp.stop.pc = "idle"
    /\ wp.stop.calls < MaxStops
    /\ wp.pool = "alloc"
    /\ wp.place_lock = "free"
    /\ wp' = [wp EXCEPT !.place_lock = "stop", !.stop = [@ EXCEPT !.pc = "join", !.i = 1]]
    /\ UNCHANGED OtherVarsPool

\* pool.c:64-70: entry i of wio_list; a worker not joined yet is joined,
\* pthread_join returning once the thread has left dnet_io_process.
PoolStopJoin ==
    /\ wp.stop.pc = "join"
    /\ wp.stop.i <= wp.num
    /\ LET w == wp.wio_list[wp.stop.i]
       IN  IF w.joined = 0
           THEN /\ wp.thr[w.tid].pc = "exited"
                /\ wp' = [wp EXCEPT !.joins[w.tid] = @ + 1,
                                    !.wio_list[wp.stop.i].joined = 1,
                                    !.stop.i = @ + 1]
           ELSE wp' = [wp EXCEPT !.stop.i = @ + 1]
    /\ UNCHANGED OtherVarsPool

\* pool.c:72: place->lock is released.
PoolStopLeave ==
    /\ wp.stop.pc = "join"
    /\ wp.stop.i > wp.num
    /\ wp' = [wp EXCEPT !.place_lock = "free",
                        !.stop = [@ EXCEPT !.pc = "idle", !.calls = @ + 1]]
    /\ UNCHANGED OtherVarsPool

NextPool ==
    \/ \E n \in 1..MaxGrow : PoolAlloc(n)
    \/ GrowLock
    \/ GrowCreate
    \/ GrowDone
    \/ PoolPush
    \/ PoolSetNeedExit
    \/ \E t \in Tids : WioTest(t)
    \/ \E t \in Tids : WioPop(t)
    \/ \E t \in Tids : WioBroadcast(t)
    \/ \E t \in Tids : WioHandle(t)
    \/ \E t \in Tids : WioFinish(t)
    \/ PoolStopEnter
    \/ PoolStopJoin
    \/ PoolStopLeave

SpecPool == InitPool /\ [][NextPool]_vars

WioStep(t) == WioTest(t) \/ WioPop(t) \/ WioBroadcast(t) \/ WioHandle(t) \/ WioFinish(t)

\* Every thread is scheduled again and a handler invocation returns; nobody
\* is obliged to call dnet_set_need_exit or dnet_work_pool_stop.
FairPool ==
    /\ \A t \in Tids : WF_vars(WioStep(t))
    /\ WF_vars(GrowLock \/ GrowCreate \/ GrowDone)
    /\ WF_vars(PoolStopJoin \/ PoolStopLeave)

SpecPoolFair == InitPool /\ [][NextPool]_vars /\ FairPool

\* dnet_work_pool_grow called on a pool that has workers, by a caller that
\* holds place->lock as dnet_work_pool_alloc does.
PoolGrow(n) ==
    /\ wp.pool = "alloc"
    /\ wp.grow.pc = "idle"
    /\ wp.grow.calls = 1
    /\ wp.place_lock = "free"
    /\ Cardinality(Created(wp)) + n <= MaxWorkers
    /\ wp' = [wp EXCEPT !.place_lock = "grow", !.grow = [@ EXCEPT !.pc = "lock", !.n = n]]
    /\ UNCHANGED OtherVarsPool

NextGrow ==
    \/ NextPool
    \/ \E n \in 1..MaxGrow : PoolGrow(n)

SpecGrow == InitPool /\ [][NextGrow]_vars

\* ------------------------------------------------------------------------
\* SpecAlloc: SpecPool with failing allocation, and cleanup
\* ------------------------------------------------------------------------

\* dnet_work_pool_alloc failing before dnet_work_pool_grow (pool.c:197-221,
\* 231-237): calloc returns NULL, which is what place->pool is set to; or
\* pthread_mutex_init or dnet_request_queue_create fails and the pool is
\* freed, place->pool keeping its value.
PoolAllocFail(at) ==
    /\ wp.pool = "none"
    /\ wp.ret = "none"
    /\ wp.place_lock = "free"
    /\ wp' = [wp EXCEPT !.pool = IF at = "calloc" THEN "none" ELSE "freed",
                        !.ret = ENOMEM]
    /\ UNCHANGED OtherVarsPool

\* dnet_work_pool_grow (pool.c:120-126): malloc returns NULL.
GrowMallocFail ==
    /\ wp.grow.pc = "lock"
    /\ wp.pool_lock = "free"
    /\ wp' = [wp EXCEPT !.pool_lock = "grow", !.wio_list = <<>>,
                        !.grow = [@ EXCEPT !.pc = "unwind", !.i = 0, !.j = 0, !.k = wp.num,
                                           !.old = Recorded(wp), !.err = ENOMEM]]
    /\ UNCHANGED OtherVarsPool

\* pool.c:138-143: pthread_create fails for entry i.
GrowCreateFail ==
    /\ wp.grow.pc = "create"
    /\ wp.grow.i < wp.grow.n
    /\ wp' = [wp EXCEPT !.grow = [@ EXCEPT !.pc = "unwind", !.j = 0, !.err = EAGAIN]]
    /\ UNCHANGED OtherVarsPool

\* pool.c:155-158: the workers created so far are joined, pthread_join
\* returning once the thread has left dnet_io_process.
GrowUnwindJoin ==
    /\ wp.grow.pc = "unwind"
    /\ wp.grow.j < wp.grow.i
    /\ wp.thr[wp.wio_list[wp.grow.j + 1].tid].pc = "exited"
    /\ wp' = [wp EXCEPT !.joins[wp.wio_list[wp.grow.j + 1].tid] = @ + 1,
                        !.grow.j = @ + 1]
    /\ UNCHANGED OtherVarsPool

\* pool.c:160-164, 224-237: wio_list is freed, pool->lock released and the
\* error returned; dnet_work_pool_alloc destroys the mutex, frees the pool,
\* releases place->lock and returns the error. place->pool is not written.
GrowFailReturn ==
    /\ wp.grow.pc = "unwind"
    /\ wp.grow.j = wp.grow.i
    /\ wp' = [wp EXCEPT !.wio_list = <<>>, !.pool_lock = "free", !.place_lock = "free",
                        !.pool = "freed", !.ret = wp.grow.err,
                        !.grow = [@ EXCEPT !.pc = "idle", !.calls = @ + 1]]
    /\ UNCHANGED OtherVarsPool

InQueue(q) == \E i \in 1..Len(wp.queue) : wp.queue[i] = q

\* pool.c:86-94: list_del and dnet_io_req_free for a request left on a list.
FreeQueued(rq) == [rq EXCEPT !.freed = @ + 1]

\* dnet_work_pool_cleanup (pool.c:75-107), called after dnet_work_pool_stop
\* (pool.c:111-112, 1285-1297): with place->lock held the requests left on
\* the lists are freed, the queue is destroyed, wio_list and the pool are
\* freed and place->pool is set to NULL.
PoolCleanup ==
    /\ wp.pool = "alloc"
    /\ wp.place_lock = "free"
    /\ wp.stop.pc = "idle"
    /\ wp.stop.calls >= 1
    /\ LET req == [q \in ReqIds |-> IF InQueue(q) THEN FreeQueued(wp.req[q]) ELSE wp.req[q]]
       IN  wp' = [wp EXCEPT !.req = req, !.queue = <<>>, !.wio_list = <<>>, !.num = 0,
                            !.pool = "none",
                            !.refcnt = @ - Cardinality({q \in ReqIds :
                                                req[q].puts > wp.req[q].puts})]
    /\ UNCHANGED OtherVarsPool

NextAlloc ==
    \/ NextPool
    \/ \E at \in {"calloc", "init"} : PoolAllocFail(at)
    \/ GrowMallocFail
    \/ GrowCreateFail
    \/ GrowUnwindJoin
    \/ GrowFailReturn
    \/ PoolCleanup

SpecAlloc == InitPool /\ [][NextAlloc]_vars

\* As FairPool, and the thread inside the error path of dnet_work_pool_grow
\* is scheduled again.
FairAlloc ==
    /\ FairPool
    /\ WF_vars(GrowUnwindJoin \/ GrowFailReturn)

SpecAllocFair == InitPool /\ [][NextAlloc]_vars /\ FairAlloc

\* ------------------------------------------------------------------------
\* Claims on the worker loop, stop and grow
\* ------------------------------------------------------------------------

\* The request has gone through the handler, release, free and put once,
\* all in thread t.
HandledOnceBy(rq, t) ==
    rq.handled = 1 /\ rq.by = {t} /\ rq.released = 1 /\ rq.freed = 1 /\ rq.puts = 1

Holds(t) == wp.thr[t].r

\* C28: every request taken off the queue is handled by one worker once, and
\* after the handler it is released and freed once and one reference to its
\* connection is dropped; the exit flags are read only by a worker that holds
\* no request, so a worker that holds a request goes on to complete it
\* whatever the flags become, and a worker that has found a flag set takes
\* no request any more.
C28_WorkerLoop ==
    /\ [](\A q \in ReqIds :
            /\ wp.req[q].handled <= 1 /\ Cardinality(wp.req[q].by) <= 1
            /\ wp.req[q].released <= 1 /\ wp.req[q].freed <= 1 /\ wp.req[q].puts <= 1
            /\ wp.req[q].puts = 1 => \E t \in Tids : HandledOnceBy(wp.req[q], t)
            /\ Cardinality({t \in Tids : Holds(t) = q}) + (IF InQueue(q) THEN 1 ELSE 0)
                  + wp.req[q].puts = (IF q <= wp.pushed THEN 1 ELSE 0))
    /\ [](wp.refcnt = 1 + Cardinality({q \in ReqIds : q <= wp.pushed /\ wp.req[q].puts = 0}))
    /\ [][\A t \in Tids :
            /\ (Holds(t) # 0 /\ wp'.thr[t] # wp.thr[t]) =>
                  /\ wp'.thr[t].pc # "exited"
                  /\ \/ wp'.thr[t].r = Holds(t)
                     \/ wp'.thr[t].r = 0 /\ HandledOnceBy(wp'.req[Holds(t)], t)
            /\ (wp.thr[t].pc # "exited" /\ wp'.thr[t].pc = "exited") =>
                  wp.thr[t].pc = "test" /\ Holds(t) = 0 /\ ~WioRuns(wp)
            /\ (wp.thr[t].pc = "test" /\ wp'.thr[t].pc # "test") =>
                  (wp'.thr[t].pc = "pop" <=> WioRuns(wp))
            /\ (Holds(t) = 0 /\ wp'.thr[t].r # 0) => wp.thr[t].pc = "pop"
            /\ wp.thr[t].pc = "exited" => wp'.thr[t] = wp.thr[t]]_vars
    /\ \A t \in Tids : \A q \in ReqIds : (Holds(t) = q) ~> HandledOnceBy(wp.req[q], t)

\* The node's exit flag was set while a worker held a request: the request
\* went through to the end, the worker then left the loop, and a request it
\* did not take is still queued.
C28_Witness ==
    \E q \in ReqIds : \E t \in Tids :
        /\ wp.req[q].late
        /\ HandledOnceBy(wp.req[q], t)
        /\ wp.thr[t].pc = "exited"
        /\ wp.queue # <<>>

StopEnters == wp.stop.pc = "idle" /\ wp'.stop.pc = "join"

StopReturns == wp.stop.pc = "join" /\ wp'.stop.pc = "idle"

\* C29: a call of dnet_work_pool_stop sets the pool's need_exit, then joins
\* every worker not joined yet, and returns also when the node's need_exit
\* is never set; no worker is joined twice, and a call after a completed one
\* joins nothing.
C29_StopSetsFlagAndJoins ==
    /\ [][StopEnters => wp'.pool_need_exit = 1]_vars
    /\ (wp.stop.pc = "join") ~> (wp.stop.pc = "idle")
    /\ [](\A t \in Tids : wp.joins[t] <= 1)
    /\ [][StopReturns => \A i \in 1..wp.num : wp'.wio_list[i].joined = 1]_vars
    /\ [][wp.stop.calls >= 1 => wp'.joins = wp.joins]_vars

\* The part of C29 on termination alone: a call of dnet_work_pool_stop
\* returns.
StopTerminates == (wp.stop.pc = "join") ~> (wp.stop.pc = "idle")

\* The part of C29 on repeated calls alone.
StopIdempotent ==
    /\ [](\A t \in Tids : wp.joins[t] <= 1)
    /\ [][StopReturns => \A i \in 1..wp.num : wp'.wio_list[i].joined = 1]_vars
    /\ [][wp.stop.calls >= 1 => wp'.joins = wp.joins]_vars

GrowReturns == wp.grow.pc = "create" /\ wp'.grow.pc = "idle"

GrowOfEmptyPool ==
    [][(GrowReturns /\ wp.grow.k = 0) =>
          /\ wp'.num = wp.grow.n
          /\ Created(wp') = Recorded(wp')
          /\ wp.pool_lock = "grow"]_vars

\* ------------------------------------------------------------------------
\* SpecInit: dnet_io_init and its error path
\* ------------------------------------------------------------------------

EFAIL == "EFAIL"

\* The components in the order dnet_io_init constructs them (pool.c:1169-1233).
BuildOrder ==
    <<"io", "full_lock", "full_wait", "recv_place", "recv_pool", "nb_place", "nb_pool",
      "protocol", "acceptor", "net1", "net2">>

\* What a construction step can return. A pool allocation fails before any
\* worker was started, or at a worker after the first ("later").
BuildResults(c) ==
    IF c = "io" THEN {"OK", ENOMEM}
    ELSE IF c \in {"recv_pool", "nb_pool"} THEN {"OK", ENOMEM, "later"}
    ELSE IF c \in {"acceptor", "net1", "net2"} THEN {"OK", EMFILE}
    ELSE {"OK", EFAIL}

\* The threads a constructed component has started.
ThreadsOf(c) ==
    IF c \in DOMAIN IoiWorkers THEN IoiWorkers[c]
    ELSE IF c \in {"acceptor"} \cup NetThreads THEN {c}
    ELSE {}

\* The labels of the error path (pool.c:1237-1266) as lists of operations.
err_out_exit == <<>>

err_out_free == <<"io">> \o err_out_exit

err_out_free_mutex == <<"full_lock">> \o err_out_free

err_out_free_cond == <<"full_wait">> \o err_out_free_mutex

err_out_cleanup_recv_place == <<"recv_place">> \o err_out_free_cond

\* The label with the blocking pool left alone.
err_out_free_recv_pool_Skip == err_out_cleanup_recv_place

err_out_free_recv_pool == <<"need_exit", "recv_pool">> \o err_out_cleanup_recv_place

err_out_cleanup_recv_place_nb == <<"nb_place">> \o err_out_free_recv_pool

err_out_free_recv_pool_nb == <<"need_exit", "nb_pool">> \o err_out_cleanup_recv_place_nb

err_out_protocol_io_stop == <<"protocol">> \o err_out_free_recv_pool_nb

\* i reactors were started before the failure: net[i-1] down to net[0], then
\* the acceptor if the node joins the network.
err_out_net_destroy(i, join) ==
    <<"need_exit">> \o [k \in 1..i |-> BuildOrder[9 + i + 1 - k]]
        \o (IF join THEN <<"acceptor">> ELSE <<>>) \o err_out_protocol_io_stop

\* The goto taken when the construction of c fails.
ErrLabel(c, join) ==
    CASE c = "io" -> err_out_exit
      [] c = "full_lock" -> err_out_free
      [] c = "full_wait" -> err_out_free_mutex
      [] c = "recv_place" -> err_out_free_cond
      [] c = "recv_pool" -> err_out_cleanup_recv_place
      [] c = "nb_place" -> err_out_free_recv_pool
      [] c = "nb_pool" -> err_out_cleanup_recv_place_nb
      [] c = "protocol" -> err_out_free_recv_pool_nb
      [] c = "acceptor" -> err_out_protocol_io_stop
      [] c = "net1" -> err_out_net_destroy(0, join)
      [] c = "net2" -> err_out_net_destroy(1, join)

InitInit ==
    /\ peer = [c \in Conns |-> [frames |-> <<>>, sent |-> 0, rd |-> 0, state |-> "open"]]
    /\ st = [c \in Conns |-> InitState]
    /\ net = [r \in Reactors |-> InitNet]
    /\ pools = [p \in Places |-> <<>>]
    /\ sched_log = [c \in Conns |-> <<>>]
    /\ IdleSend
    /\ IdleTrans
    /\ lst = InitLst
    /\ pending = 0
    /\ evt = InitEvt
    /\ sio = InitSio
    /\ rst = InitRst(0)
    /\ wp = InitWp
    /\ \E join \in BOOLEAN : ioi = InitIoi(join)
    /\ lk = InitLk
    /\ bat = InitBat
    /\ halt = InitHalt
    /\ places = InitPlace
    /\ wio = InitWio(InitPlace)
    /\ nio = [r \in NetThreads |-> InitNio]
    /\ asock = [c \in AdmConns |-> [rd |-> 0, out |-> FALSE]]
    /\ blocked = 0
    /\ node = InitNode
    /\ chk = InitChk

OtherVarsInit == <<lst, pending, evt, sio, rst, wp, lk, bat, recvVars, sendVars, transVars, admVars>>

\* One construction step of dnet_io_init (pool.c:1169-1233). The acceptor is
\* constructed only with DNET_CFG_JOIN_NETWORK. A failed step jumps to its
\* label. A pool allocation that fails at a later worker is inside
\* dnet_work_pool_grow, in pthread_join for the first worker (pool.c:155-158),
\* and the first worker runs.
IoiBuild ==
    /\ ioi.pc = "build"
    /\ ioi.step <= Len(BuildOrder)
    /\ LET c == BuildOrder[ioi.step]
       IN  IF c = "acceptor" /\ ~ioi.join
           THEN ioi' = [ioi EXCEPT !.step = @ + 1]
           ELSE \E res \in BuildResults(c) :
                   CASE res = "OK" ->
                          ioi' = [ioi EXCEPT !.step = @ + 1,
                                             !.built = Append(@, c),
                                             !.io = "alloc",
                                             !.thr = [t \in IoiThreads |->
                                                         IF t \in ThreadsOf(c) THEN "run" ELSE @[t]]]
                     [] res = "later" ->
                          ioi' = [ioi EXCEPT !.pc = "grow_join", !.err = EFAIL,
                                             !.thr = [t \in IoiThreads |->
                                                         IF t = IoiFirst[c] THEN "run" ELSE @[t]]]
                     [] OTHER ->
                          ioi' = [ioi EXCEPT !.pc = "unwind", !.err = res,
                                             !.todo = ErrLabel(c, ioi.join)]
    /\ UNCHANGED OtherVarsInit

\* pool.c:1235: every step succeeded.
IoiDone ==
    /\ ioi.pc = "build"
    /\ ioi.step > Len(BuildOrder)
    /\ ioi' = [ioi EXCEPT !.pc = "ret", !.ret = "OK"]
    /\ UNCHANGED OtherVarsInit

\* A reactor, the acceptor or a worker finds n->need_exit set and leaves its
\* loop (pool.c:940, 1085).
IoiThreadExit(t) ==
    /\ ioi.thr[t] = "run"
    /\ ioi.need_exit = 1
    /\ ioi' = [ioi EXCEPT !.thr[t] = "exited"]
    /\ UNCHANGED OtherVarsInit

\* One operation of the error path: n->need_exit = 1, or the teardown of a
\* component, which joins the threads the component started
\* (dnet_net_io_cleanup, dnet_work_pool_exit).
IoiUnwind ==
    /\ ioi.pc = "unwind"
    /\ ioi.todo # <<>>
    /\ LET op == Head(ioi.todo)
       IN  IF op = "need_exit"
           THEN ioi' = [ioi EXCEPT !.need_exit = 1, !.todo = Tail(@)]
           ELSE /\ \A t \in ThreadsOf(op) : ioi.thr[t] = "exited"
                /\ ioi' = [ioi EXCEPT !.todo = Tail(@), !.down = Append(@, op),
                                      !.thr = [t \in IoiThreads |->
                                                  IF t \in ThreadsOf(op) THEN "joined" ELSE @[t]]]
    /\ UNCHANGED OtherVarsInit

\* pool.c:1264-1266: n->io = NULL; return err.
IoiReturn ==
    /\ ioi.pc = "unwind"
    /\ ioi.todo = <<>>
    /\ ioi' = [ioi EXCEPT !.pc = "ret", !.io = "NULL", !.ret = ioi.err]
    /\ UNCHANGED OtherVarsInit

NextInit ==
    \/ IoiBuild
    \/ IoiDone
    \/ \E t \in IoiThreads : IoiThreadExit(t)
    \/ IoiUnwind
    \/ IoiReturn

SpecInit == InitInit /\ [][NextInit]_vars

Reverse(sq) == [k \in 1..Len(sq) |-> sq[Len(sq) + 1 - k]]

SeqRange(sq) == {sq[k] : k \in 1..Len(sq)}

InitFailed == ioi.pc = "ret" /\ ioi.ret # "OK"

\* The position of a component in the order acceptor, reactors, non-blocking
\* pool, blocking pool, admission primitives, allocation.
StatedRank(c) ==
    CASE c = "acceptor" -> 1
      [] c \in NetThreads -> 2
      [] c \in {"protocol", "nb_pool", "nb_place"} -> 3
      [] c \in {"recv_pool", "recv_place"} -> 4
      [] c \in {"full_wait", "full_lock"} -> 5
      [] c = "io" -> 6

Unwound ==
    /\ SeqRange(ioi.down) = SeqRange(ioi.built)
    /\ Len(ioi.down) = Len(ioi.built)
    /\ \A t \in IoiThreads : ioi.thr[t] \in {"none", "joined"}
    /\ ioi.io = "NULL"
    /\ ioi.ret = ioi.err

MaxWaits == 1

LkPools == {"recv", "nb"}

PlaceLock(p) == IF p = "recv" THEN "place_recv" ELSE "place_nb"

PoolLock(p) == IF p = "recv" THEN "pool_recv" ELSE "pool_nb"

Lock(l) == [op |-> "lock", l |-> l]

Unlock(l) == [op |-> "unlock", l |-> l]

CondWait(l) == [op |-> "wait", l |-> l]

\* dnet_check_work_pool_place (pool.c:860-870) on a place that holds a pool.
CheckPlaceOps(p) ==
    <<Lock(PlaceLock(p)), Lock(PoolLock(p)), Unlock(PoolLock(p)), Unlock(PlaceLock(p))>>

\* dnet_check_io (pool.c:873-892): recv_pool, then recv_pool_nb.
CheckIoOps == CheckPlaceOps("recv") \o CheckPlaceOps("nb")

RECURSIVE ParkLoop(_)
\* pool.c:1030-1035: the loop condition calls dnet_check_io; a timed wait
\* releases full_lock and takes it again before it returns.
ParkLoop(waits) ==
    IF waits = 0 THEN CheckIoOps
    ELSE CheckIoOps \o <<CondWait("full_lock"), Lock("full_lock")>> \o ParkLoop(waits - 1)

\* pool.c:1028-1037: the parking block.
ParkOps(waits) == <<Lock("full_lock")>> \o ParkLoop(waits) \o <<Unlock("full_lock")>>

\* pool.c:729-731: the statistics of a completed send.
SendStatOps == <<Lock("full_lock"), Unlock("full_lock")>>

\* dnet_schedule_io taking full_lock around the push.
DispatchOps_TakesFull(p) ==
    <<Lock(PlaceLock(p)), Lock("full_lock"), Unlock("full_lock"), Unlock(PlaceLock(p))>>

\* dnet_schedule_io (pool.c:370-396): the place comes back locked, the
\* request is pushed, the place is unlocked.
DispatchOps(p) == <<Lock(PlaceLock(p)), Unlock(PlaceLock(p))>>

\* dnet_work_pool_stop and dnet_work_pool_cleanup (pool.c:62-72, 81-106).
StopOps(p) == <<Lock(PlaceLock(p)), Unlock(PlaceLock(p))>>

\* dnet_work_pool_alloc calling dnet_work_pool_grow (pool.c:197, 120-150, 227).
AllocOps(p) ==
    <<Lock(PlaceLock(p)), Lock(PoolLock(p)), Unlock(PoolLock(p)), Unlock(PlaceLock(p))>>

\* What a thread can do next: a reactor evaluates the admission check after
\* a batch (pool.c:1019), parks, completes a send or dispatches a frame; the
\* controlling thread stops, cleans up or allocates a pool.
LkPrograms(t) ==
    IF t \in NetThreads
    THEN {CheckIoOps, SendStatOps} \cup {ParkOps(w) : w \in 0..MaxWaits}
            \cup {DispatchOps(p) : p \in LkPools}
    ELSE {StopOps(p) : p \in LkPools} \cup {AllocOps(p) : p \in LkPools}

InitLocks ==
    /\ peer = [c \in Conns |-> [frames |-> <<>>, sent |-> 0, rd |-> 0, state |-> "open"]]
    /\ st = [c \in Conns |-> InitState]
    /\ net = [r \in Reactors |-> InitNet]
    /\ pools = [p \in Places |-> <<>>]
    /\ sched_log = [c \in Conns |-> <<>>]
    /\ IdleSend
    /\ IdleTrans
    /\ IdleAdm

OtherVarsLocks == <<lst, pending, evt, sio, rst, wp, ioi, bat, recvVars, sendVars, transVars, admVars>>

LkBegin(t) ==
    /\ lk.thr[t].prog = <<>>
    /\ \E prog \in LkPrograms(t) : lk' = [lk EXCEPT !.thr[t].prog = prog]
    /\ UNCHANGED OtherVarsLocks

\* pthread_mutex_lock returns once the mutex is free.
LkLock(t) ==
    /\ lk.thr[t].prog # <<>>
    /\ Head(lk.thr[t].prog).op = "lock"
    /\ lk.own[Head(lk.thr[t].prog).l] = "free"
    /\ lk' = [lk EXCEPT !.own[Head(lk.thr[t].prog).l] = t,
                        !.thr[t] = [prog |-> Tail(@.prog), parked |-> FALSE]]
    /\ UNCHANGED OtherVarsLocks

LkUnlock(t) ==
    /\ lk.thr[t].prog # <<>>
    /\ Head(lk.thr[t].prog).op = "unlock"
    /\ lk' = [lk EXCEPT !.own[Head(lk.thr[t].prog).l] = "free",
                        !.thr[t].prog = Tail(@)]
    /\ UNCHANGED OtherVarsLocks

\* pthread_cond_timedwait releases the mutex while the thread sleeps.
LkWait(t) ==
    /\ lk.thr[t].prog # <<>>
    /\ Head(lk.thr[t].prog).op = "wait"
    /\ lk' = [lk EXCEPT !.own[Head(lk.thr[t].prog).l] = "free",
                        !.thr[t] = [prog |-> Tail(@.prog), parked |-> TRUE]]
    /\ UNCHANGED OtherVarsLocks

NextLocks ==
    \/ \E t \in LkThreads : LkBegin(t)
    \/ \E t \in LkThreads : LkLock(t)
    \/ \E t \in LkThreads : LkUnlock(t)
    \/ \E t \in LkThreads : LkWait(t)

SpecLocks == InitLocks /\ [][NextLocks]_vars

LkHeld(t) == {l \in LkLocks : lk.own[l] = t}

Acquires(t, l) == lk.own[l] # t /\ lk'.own[l] = t

\* The mutex a thread is blocked on.
Wants(t) ==
    IF lk.thr[t].prog # <<>> /\ Head(lk.thr[t].prog).op = "lock"
          /\ lk.own[Head(lk.thr[t].prog).l] # "free"
    THEN {Head(lk.thr[t].prog).l} ELSE {}

\* No set of threads each of which is blocked on a mutex another of them
\* holds.
NoCyclicWait ==
    \A S \in SUBSET LkThreads :
        S # {} => \E t \in S : \A l \in Wants(t) : lk.own[l] \notin S \ {t}

\* place lock, then pool lock, then admission lock.
StatedLockRank(l) ==
    IF l \in {"place_recv", "place_nb"} THEN 1 ELSE IF l \in {"pool_recv", "pool_nb"} THEN 2 ELSE 3

\* admission lock, then place lock, then pool lock.
CodeLockRank(l) ==
    IF l = "full_lock" THEN 1 ELSE IF l \in {"place_recv", "place_nb"} THEN 2 ELSE 3

\* C32 as stated: a thread takes a mutex only while it holds none that comes
\* later in the order place lock, pool lock, admission lock, so no place or
\* pool lock is taken with full_lock held; and no cyclic wait is reachable.
C32_PlacePoolThenFull ==
    /\ [][\A t \in LkThreads : \A l \in LkLocks :
             Acquires(t, l) => \A h \in LkHeld(t) : StatedLockRank(h) < StatedLockRank(l)]_vars
    /\ []NoCyclicWait

\* C32, amended: the order is admission lock, then place lock, then pool
\* lock: the parking reactor evaluates dnet_check_io with full_lock held and
\* so takes each place lock and pool lock inside it; no thread takes
\* full_lock while it holds a place lock or a pool lock, no thread holds two
\* place locks, a sleeping reactor holds no mutex, and no cyclic wait is
\* reachable.
C32_FullThenPlaceThenPool ==
    /\ [][\A t \in LkThreads : \A l \in LkLocks :
             Acquires(t, l) => \A h \in LkHeld(t) : CodeLockRank(h) < CodeLockRank(l)]_vars
    /\ [](\A t \in LkThreads : lk.thr[t].parked => LkHeld(t) = {})
    /\ []NoCyclicWait

\* A reactor is inside dnet_check_io with full_lock held, holding a place
\* lock and its pool lock, while the other reactor is blocked on full_lock
\* and the controlling thread on the place lock.
C32_Witness ==
    \E t \in NetThreads :
        /\ {"full_lock", "place_recv", "pool_recv"} \subseteq LkHeld(t)
        /\ \E u \in NetThreads \ {t} : Wants(u) = {"full_lock"}
        /\ Wants("ctl") = {"place_recv"}

\* ------------------------------------------------------------------------
\* Claims on failing allocation and on cleanup
\* ------------------------------------------------------------------------

\* C33: when pthread_create fails inside dnet_work_pool_grow, the call
\* terminates: the workers already started leave their loop and are joined,
\* and the error is returned.
C33_GrowFailureTerminates ==
    (wp.grow.pc = "unwind") ~>
        /\ wp.grow.pc = "idle"
        /\ wp.ret = wp.grow.err
        /\ \A t \in Created(wp) : wp.thr[t].pc = "exited" /\ wp.joins[t] = 1

\* The same when the failure comes before any worker was started.
GrowFailureBeforeWorkers ==
    (wp.grow.pc = "unwind" /\ wp.grow.i = 0) ~> (wp.grow.pc = "idle" /\ wp.ret = wp.grow.err)

\* C34: place->pool is not NULL only while it points to a pool that is
\* allocated and not freed, a pool under construction being covered by
\* place->lock: after a failed dnet_work_pool_alloc and after
\* dnet_work_pool_cleanup it is NULL, and dnet_work_pool_stop runs only on a
\* place whose pool pointer is not NULL.
C34_PoolPointerValid ==
    /\ wp.pool \in {"none", "alloc"}
    /\ (wp.place_lock = "free" /\ wp.ret \notin {"none", "OK"}) => wp.pool = "none"
    /\ (wp.place_lock = "free" /\ wp.pool = "alloc") => wp.ret = "OK" /\ wp.num = Len(wp.wio_list)
    /\ wp.stop.pc = "join" => wp.pool = "alloc"

\* The part of C34 on cleanup and stop alone.
PoolPointerAfterCleanup ==
    /\ [][(wp.pool = "alloc" /\ wp'.pool # "alloc" /\ wp.ret = "OK") => wp'.pool = "none"]_vars
    /\ [](wp.stop.pc = "join" => wp.pool = "alloc")

\* C36: the reference taken for a dispatched request is dropped exactly
\* once, for a request a worker processed and for a request that was still
\* queued when the pool was cleaned up; once the pool is cleaned up the
\* connection holds no reference on behalf of a request.
C36_ReferencesBalanced ==
    /\ \A q \in ReqIds : wp.req[q].puts <= 1 /\ (wp.req[q].freed = 1 => wp.req[q].puts = 1)
    /\ (wp.ret = "OK" /\ wp.pool = "none") => wp.refcnt = 1

\* The part of C36 on requests a worker processed alone.
ProcessedReferencesBalanced ==
    \A q \in ReqIds : wp.req[q].handled = 1 /\ wp.req[q].freed = 1 => wp.req[q].puts = 1

\* ------------------------------------------------------------------------
\* Claims on the ownership of a dispatched request
\* ------------------------------------------------------------------------

\* The requests in the pool queues, and those inside dnet_schedule_io.
QueuedRequests == {x \in Places \X (1..MaxDispatch) : x[2] <= Len(pools[x[1]])}

InDispatch == {t \in NetThreads : sio.thr[t].pc # "idle"}

\* C35: every frame for which the reactor took a reference to the connection
\* is pushed into one pool queue, or is freed and its reference dropped: the
\* references taken are those of the requests queued or still inside
\* dnet_schedule_io, also after the backend id could not be stamped.
C35_RequestPushedOrFreed ==
    sio.refs = Cardinality(QueuedRequests) + Cardinality(InDispatch)

\* ------------------------------------------------------------------------
\* SpecBatch: one reactor handling batches of readiness events
\* ------------------------------------------------------------------------

\* Calls of epoll_wait that return events.
MaxBatches == 2

BatEvents == BatConns \X BatKinds

\* The orders dnet_shuffle_epoll_events can leave a batch in.
Perms(S) ==
    {sq \in [1..Cardinality(S) -> S] : \A a, b \in 1..Cardinality(S) : a # b => sq[a] # sq[b]}

\* The registrations are level-triggered (pool.c:778-791, no EPOLLET):
\* epoll_wait reports every registered socket that is ready.
Reported(b) == {e \in BatEvents : e[2] \in b.conn[e[1]].registered \cap b.conn[e[1]].ready}

InitBatch ==
    /\ peer = [c \in Conns |-> [frames |-> <<>>, sent |-> 0, rd |-> 0, state |-> "open"]]
    /\ st = [c \in Conns |-> InitState]
    /\ net = [r \in Reactors |-> InitNet]
    /\ pools = [p \in Places |-> <<>>]
    /\ sched_log = [c \in Conns |-> <<>>]
    /\ IdleSend
    /\ IdleTrans
    /\ lst = InitLst
    /\ pending = 0
    /\ evt = InitEvt
    /\ sio = InitSio
    /\ rst = InitRst(0)
    /\ wp = InitWp
    /\ ioi = InitIoi(TRUE)
    /\ lk = InitLk
    /\ \E refs \in [BatConns -> {1, 2}] :
          bat = [InitBat EXCEPT !.conn = [c \in BatConns |-> [@[c] EXCEPT !.refcnt = refs[c]]]]
    /\ halt = InitHalt
    /\ places = InitPlace
    /\ wio = InitWio(InitPlace)
    /\ nio = [r \in NetThreads |-> InitNio]
    /\ asock = [c \in AdmConns |-> [rd |-> 0, out |-> FALSE]]
    /\ blocked = 0
    /\ node = InitNode
    /\ chk = InitChk

OtherVarsBatch == <<lst, pending, evt, sio, rst, wp, ioi, lk, recvVars, sendVars, transVars, admVars>>

\* The peer sends data, or the socket can take data again.
BatReady(c, k) ==
    /\ k \notin bat.conn[c].ready
    /\ bat.conn[c].need_exit = "OK"
    /\ bat' = [bat EXCEPT !.conn[c].ready = @ \cup {k}]
    /\ UNCHANGED OtherVarsBatch

\* pool.c:954-975: epoll_wait returns the ready registered sockets, the
\* batch is shuffled and the loop starts at its first event.
BatEpollWait ==
    /\ bat.pc = "wait"
    /\ bat.batches < MaxBatches
    /\ Reported(bat) # {}
    /\ \E evs \in Perms(Reported(bat)) :
          bat' = [bat EXCEPT !.pc = "loop", !.evs = evs, !.i = 1, !.batches = @ + 1,
                             !.handled = <<>>, !.reset = FALSE]
    /\ UNCHANGED OtherVarsBatch

\* The loop going on to the next event after a reset.
BreakAfterReset_Continue(b) == [b EXCEPT !.i = @ + 1, !.reset = TRUE]

\* pool.c:1015: break; the events of the batch after this one are left.
BreakAfterReset(b) ==
    [b EXCEPT !.pc = "wait", !.reset = TRUE,
              !.skipped = {b.evs[j] : j \in (b.i + 1)..Len(b.evs)}]

\* pool.c:1001-1014: dnet_state_reset, dnet_unschedule_all under send_lock,
\* dnet_add_reconnect_state, dnet_state_put; the last reference dropped
\* releases the connection.
BatReset(cn, err) ==
    [cn EXCEPT !.need_exit = err, !.registered = {}, !.refcnt = @ - 1,
               !.released = (cn.refcnt = 1)]

\* pool.c:976-1016: one event of the batch. A receive event is skipped while
\* admission is denied; otherwise the handler is called. After 0 or -EAGAIN
\* the loop goes on; another negative result resets the connection.
BatEvent ==
    /\ bat.pc = "loop"
    /\ bat.i <= Len(bat.evs)
    /\ LET c == bat.evs[bat.i][1]
           k == bat.evs[bat.i][2]
           called == [bat EXCEPT !.handled = Append(@, [c |-> c, k |-> k, batch |-> bat.batches])]
       IN  \/ /\ k = "in"
              /\ bat' = [bat EXCEPT !.i = @ + 1]
           \/ \E clear \in BOOLEAN, unsched \in BOOLEAN :
                 /\ unsched => k = "out" /\ clear
                 /\ bat' = [called EXCEPT !.i = @ + 1,
                                          !.conn[c].ready = IF clear THEN @ \ {k} ELSE @,
                                          !.conn[c].registered = IF unsched THEN @ \ {k} ELSE @]
           \/ \E err \in {ECONNRESET, ENOMEM} :
                 bat' = BreakAfterReset([called EXCEPT !.conn[c] = BatReset(@, err)])
    /\ UNCHANGED OtherVarsBatch

\* The loop has gone through the whole batch.
BatBatchEnd ==
    /\ bat.pc = "loop"
    /\ bat.i > Len(bat.evs)
    /\ bat' = [bat EXCEPT !.pc = "wait"]
    /\ UNCHANGED OtherVarsBatch

NextBatch ==
    \/ \E c \in BatConns : \E k \in BatKinds : BatReady(c, k)
    \/ BatEpollWait
    \/ BatEvent
    \/ BatBatchEnd

SpecBatch == InitBatch /\ [][NextBatch]_vars

HandlerCalled == bat.pc = "loop" /\ Len(bat'.handled) > Len(bat.handled)

LastHandled == bat'.handled[Len(bat'.handled)]

\* C37: after the reactor has reset a connection in a batch it calls no
\* handler for a later event of that batch, so no handler runs on a
\* connection that is reset or released; the events left of connections that
\* are not reset stay ready and registered, and the next epoll_wait reports
\* them again.
C37_BatchEndsAtReset ==
    /\ [][HandlerCalled =>
             /\ ~bat.reset
             /\ bat.conn[LastHandled.c].need_exit = "OK"
             /\ ~bat.conn[LastHandled.c].released]_vars
    /\ [](bat.reset => bat.pc = "wait")
    /\ [](bat.reset =>
             \A e \in bat.skipped :
                 bat.conn[e[1]].need_exit = "OK" => e \in Reported(bat))
    /\ [][(bat.pc = "wait" /\ bat'.pc = "loop") =>
             \A e \in bat.skipped :
                 bat.conn[e[1]].need_exit = "OK" /\ e \in Reported(bat) =>
                     e \in SeqRange(bat'.evs)]_vars

\* A batch was left at the reset of a connection that was released, with a
\* later event of that connection and one of the other connection not
\* handled; the second batch reports the event of the other connection.
C37_Witness ==
    /\ bat.batches = MaxBatches
    /\ bat.pc = "loop"
    /\ \E e \in bat.skipped : bat.conn[e[1]].released
    /\ \E e \in bat.skipped :
          /\ bat.conn[e[1]].need_exit = "OK"
          /\ e \in SeqRange(bat.evs)

\* ------------------------------------------------------------------------
\* SpecSched: dnet_schedule_send and dnet_schedule_recv against a reset
\* ------------------------------------------------------------------------

\* Calls of each of the two functions.
MaxSchedCalls == 2

SchedKinds == {"send", "recv"}

\* pool.c:778-788: the socket each call registers.
SchedSocket == [send |-> "write_s", recv |-> "read_s"]

\* A call that does not look at the connection's need_exit.
StoredError_None(r) == "OK"

\* pool.c:772: st->__need_exit as the call reads it.
StoredError(r) == r.st.need_exit

\* A producer queues a frame under st->send_lock and calls
\* dnet_schedule_send with the lock held; the registrations of a connection
\* change under that lock, so dnet_schedule_recv is called with it held too.
SchedEnter(k) ==
    /\ rst.call[k].pc = "idle"
    /\ rst.call[k].calls < MaxSchedCalls
    /\ rst.send_lock = "none"
    /\ rst' = [rst EXCEPT !.call[k].pc = "check", !.call[k].calls = @ + 1,
                          !.send_lock = "producer"]
    /\ UNCHANGED <<lst, pending, evt, sio, wp, ioi, lk, bat, recvVars, sendVars, transVars, admVars>>

\* pool.c:772-776: a connection marked for reset is not registered, the call
\* returns the stored error.
SchedCheck(k) ==
    /\ rst.call[k].pc = "check"
    /\ rst' = IF StoredError(rst) # "OK"
              THEN [rst EXCEPT !.call[k].pc = "ret", !.call[k].ret = StoredError(rst)]
              ELSE [rst EXCEPT !.call[k].pc = "add"]
    /\ UNCHANGED <<lst, pending, evt, sio, wp, ioi, lk, bat, recvVars, sendVars, transVars, admVars>>

\* pool.c:790-820: epoll_ctl(EPOLL_CTL_ADD); -EEXIST counts as success.
SchedAdd(k) ==
    /\ rst.call[k].pc = "add"
    /\ rst' = [rst EXCEPT !.st.registered = @ \cup {SchedSocket[k]},
                          !.call[k].pc = "ret", !.call[k].ret = "OK",
                          !.call[k].raced = @ \/ rst.st.need_exit # "OK"]
    /\ UNCHANGED <<lst, pending, evt, sio, wp, ioi, lk, bat, recvVars, sendVars, transVars, admVars>>

\* The call returns; the caller releases st->send_lock.
SchedReturn(k) ==
    /\ rst.call[k].pc = "ret"
    /\ rst' = [rst EXCEPT !.call[k].pc = "idle", !.send_lock = "none"]
    /\ UNCHANGED <<lst, pending, evt, sio, wp, ioi, lk, bat, recvVars, sendVars, transVars, admVars>>

\* pool.c:706-715: the send handler looks at the send list, and removes
\* write readiness, under st->send_lock.
SchedHandler == rst.send_lock = "none" /\ RstHandler

\* pool.c:999-1015 with the lock: dnet_state_reset is called before the lock
\* is taken, dnet_unschedule_all with the lock held.
SchedReset ==
    /\ rst.pc = "reset"
    /\ LET step == ResetSteps[Len(rst.done) + 1]
       IN  /\ step = "dnet_unschedule_all" => rst.send_lock = "reactor"
           /\ step # "dnet_unschedule_all" => rst.send_lock # "reactor"
    /\ RstStep

\* pool.c:1001 and 1003.
SchedResetLock ==
    /\ rst.pc = "reset"
    /\ ResetSteps[Len(rst.done) + 1] = "dnet_unschedule_all"
    /\ rst.send_lock = "none"
    /\ rst' = [rst EXCEPT !.send_lock = "reactor"]
    /\ UNCHANGED <<lst, pending, evt, sio, wp, ioi, lk, bat, recvVars, sendVars, transVars, admVars>>

SchedResetUnlock ==
    /\ rst.send_lock = "reactor"
    /\ "dnet_unschedule_all" \in SeqRange(rst.done)
    /\ rst' = [rst EXCEPT !.send_lock = "none"]
    /\ UNCHANGED <<lst, pending, evt, sio, wp, ioi, lk, bat, recvVars, sendVars, transVars, admVars>>

NextSched ==
    \/ SchedHandler
    \/ RstResult
    \/ SchedReset
    \/ SchedResetLock
    \/ SchedResetUnlock
    \/ \E k \in SchedKinds : SchedEnter(k)
    \/ \E k \in SchedKinds : SchedCheck(k)
    \/ \E k \in SchedKinds : SchedAdd(k)
    \/ \E k \in SchedKinds : SchedReturn(k)

SpecSched == InitReset /\ [][NextSched]_vars

NoDuplicates(sq) == \A a, b \in 1..Len(sq) : a # b => sq[a] # sq[b]

\* Who has the buffer id of connection state s: the connection (rcv_data
\* points to it), the consumer it was dispatched to, or nobody after the
\* connection freed it.
BufferOwners(s, id) ==
    (IF s.cur = id THEN {"connection"} ELSE {})
        \cup (IF id \in SeqRange(s.handed) THEN {"consumer"} ELSE {})
        \cup (IF id \in SeqRange(s.freed) THEN {"freed"} ELSE {})

\* C40: the receive buffer of a frame has one owner at any time: while the
\* frame is assembled it is the connection's, and a connection that fails
\* mid-frame frees it exactly once; a dispatched frame's buffer is the
\* consumer's and the connection does not point to it any more, so the
\* connection never frees a buffer it has dispatched, whether a worker still
\* has it or has freed it.
C40_BufferSingleOwner ==
    /\ [](\A c \in Conns :
             /\ (st[c].cur # 0) <=> (st[c].rcv_data # NullReq)
             /\ \A id \in 1..st[c].nbuf : Cardinality(BufferOwners(st[c], id)) = 1
             /\ NoDuplicates(st[c].freed)
             /\ NoDuplicates(st[c].handed)
             /\ Len(st[c].handed) = Len(sched_log[c])
             /\ st[c].need_exit # "OK" => st[c].cur = 0)
    /\ [][\A c \in Conns :
             (st[c].cur # 0 /\ st[c].need_exit = "OK" /\ st'[c].need_exit # "OK") =>
                 /\ st'[c].freed = Append(st[c].freed, st[c].cur)
                 /\ st'[c].cur = 0
                 /\ st'[c].handed = st[c].handed]_vars

\* A connection that had a frame dispatched failed while it was receiving
\* the payload of the next one: the first buffer went to the consumer and a
\* worker has freed it, the second was freed by the connection.
C40_Witness ==
    \E c \in Conns :
        /\ st[c].need_exit # "OK"
        /\ st[c].handed = <<1>>
        /\ st[c].freed = <<2>>
        /\ sched_log[c][1].dsize > 0
        /\ \A p \in Places : pools[p] = <<>>

====
